---------------------------- MODULE Spec2Model ----------------------------
(***************************************************************************)
(* The idiom path evaluator Value::get of crates/core/src/expr/value/get.rs *)
(* as a state machine.  One dispatch of get (the depth guard and the match  *)
(* on the path head and the value variant) is one step of a task; the       *)
(* reentries of get are the next steps of the same task, the concurrently   *)
(* mapped array elements are child tasks that interleave.  The same arms    *)
(* are folded by the operator Get into the function the evaluator computes. *)
(***************************************************************************)
EXTENDS Integers, Sequences, FiniteSets, TLC

(***************************************************************************)
(* Bounds of the model.                                                     *)
(***************************************************************************)
\* cnf::MAX_COMPUTATION_DEPTH, scaled down: the longest path the guard admits
MAX_COMPUTATION_DEPTH == 4
\* the most iterations the bounds of a Recurse step ask for
MaxRecurse == 2

(***************************************************************************)
(* Values (expr::value::Value), as tagged tuples.                           *)
(***************************************************************************)
None == <<"None">>
Number(n) == <<"Number", n>>
Strand(s) == <<"Strand", s>>
Bool(b) == <<"Bool", b>>
Array(a) == <<"Array", a>>
\* an object is its BTreeMap: the <<key, value>> pairs in key order
Object(f) == <<"Object", f>>
IdStr(s) == <<"IdStr", s>>
IdObject(f) == <<"IdObject", f>>
IdArray(a) == <<"IdArray", a>>
Thing(tb, id) == <<"Thing", tb, id>>
Edges(from, what) == <<"Edges", from, what>>
Geometry(kind) == <<"Geometry", kind>>
Future(e) == <<"Future", e>>
Refs(e) == <<"Refs", e>>
Closure(e) == <<"Closure", e>>
Range(lo, hi) == <<"Range", lo, hi>>

Variant(v) == v[1]

(***************************************************************************)
(* Results (FlowResult<Value>): Ok(v), ControlFlow::Err(e),                 *)
(* ControlFlow::Return(v).                                                  *)
(***************************************************************************)
Ok(v) == <<"Ok", v>>
Err(e) == <<"Err", e>>
Return(v) == <<"Return", v>>
IsOk(r) == r[1] = "Ok"

(***************************************************************************)
(* Expressions the path and the values carry (the block of a future, the   *)
(* expression of a Value step, a method argument, the body of a closure):   *)
(* a literal, one that fails, one that returns early.                       *)
(***************************************************************************)
Lit(v) == <<"Lit", v>>
Fail == <<"Fail">>
FailInvalid == <<"FailInvalid">>
Ret(v) == <<"Ret", v>>

\* x.compute(stk, ctx, opt, doc)
ExprCompute(e) ==
    CASE e[1] = "Lit" -> Ok(e[2])
      [] e[1] = "Ret" -> Return(e[2])
      [] e[1] = "FailInvalid" -> Err("InvalidFunction")
      [] OTHER -> Err("ExprError")

\* FlowResultExt::catch_return: an early return is caught as its value
CatchReturn(r) == IF r[1] = "Return" THEN Ok(r[2]) ELSE r

(***************************************************************************)
(* Parts (expr::part::Part).                                                *)
(***************************************************************************)
Field(f) == <<"Field", f>>
Index(i) == <<"Index", i>>
All == <<"All">>
First == <<"First">>
Last == <<"Last">>
Flatten == <<"Flatten">>
Optional == <<"Optional">>
Doc == <<"Doc">>
RepeatRecurse == <<"RepeatRecurse">>
Where(w) == <<"Where", w>>
ValueP(x) == <<"Value", x>>
\* a graph step: the edge set it follows and its projection ("none": g.expr is None)
Graph(what, expr) == <<"Graph", what, expr>>
Method(name, args) == <<"Method", name, args>>
\* a destructure step: parts <<"Field", f>> or <<"Aliased", f, idiom>>
Destructure(parts) == <<"Destructure", parts>>
\* the inner path of a Recurse: Some(path) or None
SomePath(path) == <<"Some", path>>
NoPath == <<"NoPath">>
NoInstruction == "none"
\* Recurse(recurse, inner_path, instruction): bounds <<min, max>>
Recurse(bounds, inner, instruction) == <<"Recurse", bounds, inner, instruction>>

Kind(p) == p[1]

(***************************************************************************)
(* The cursor document: none, or a document with an optional record id.     *)
(***************************************************************************)
NoDoc == <<"NoDoc">>
CursorDoc(rid) == <<"Doc", rid>>

(***************************************************************************)
(* Helpers of Value, Object and Array the evaluator calls.                  *)
(***************************************************************************)
\* the positions of key k in the pairs f (at most one)
KeyPos(f, k) == {i \in 1..Len(f) : f[i][1] = k}
\* Object::get(k): Some(v) or None
HasKey(f, k) == KeyPos(f, k) # {}
ObjGet(f, k) == f[CHOOSE i \in KeyPos(f, k) : TRUE][2]
\* Object::values(), in key order
ObjValues(f) == [i \in 1..Len(f) |-> f[i][2]]
\* Object::rid(): the record id the object carries in its id field
HasRid(f) == HasKey(f, "id") /\ Variant(ObjGet(f, "id")) = "Thing"
Rid(f) == ObjGet(f, "id")

\* Value::is_truthy
IsTruthy(v) ==
    CASE Variant(v) = "Bool" -> v[2]
      [] Variant(v) = "Number" -> v[2] # 0
      [] Variant(v) = "Strand" -> v[2] # ""
      [] Variant(v) = "Array" -> Len(v[2]) > 0
      [] Variant(v) = "Object" -> Len(v[2]) > 0
      [] Variant(v) = "Thing" -> TRUE
      [] Variant(v) = "Geometry" -> TRUE
      [] OTHER -> FALSE

RECURSIVE ConcatAll(_)
\* Array::flatten: the elements that are arrays are replaced by their elements
ConcatAll(a) ==
    IF a = <<>> THEN <<>>
    ELSE (IF Variant(Head(a)) = "Array" THEN Head(a)[2] ELSE <<Head(a)>>)
         \o ConcatAll(Tail(a))

\* Value::flatten: one level of an array, any other value unchanged
FlattenValue(v) == IF Variant(v) = "Array" THEN Array(ConcatAll(v[2])) ELSE v

\* Value::first of the rows of a select
FirstRow(v) == IF Variant(v) = "Array" /\ Len(v[2]) > 0 THEN v[2][1] ELSE None

\* Number::to_usize / Thing::to_raw / i.to_string() on the keys the model uses
ToRaw(t) == t[2] \o ":" \o (IF t[3][1] = "IdStr" THEN t[3][2] ELSE "{}")
IndexKey(i) == IF i = 0 THEN "0" ELSE "1"

\* Range::slice(v): the elements at the positions lo..hi-1 (0-based)
Slice(a, lo, hi) ==
    IF lo <= hi /\ hi <= Len(a) THEN Array(SubSeq(a, lo + 1, hi)) ELSE None

(***************************************************************************)
(* Path utilities (expr::part: Next, Skip, NextMethod,                      *)
(* SplitByRepeatRecurse, FindRecursionPlan).                                *)
(***************************************************************************)
PathNext(path) == IF path = <<>> THEN <<>> ELSE Tail(path)
Skip(path, n) == IF path = <<>> THEN <<>> ELSE SubSeq(path, n + 1, Len(path))

MethodPos(path) == {i \in 1..Len(path) : Kind(path[i]) = "Method"}
MinOf(S) == CHOOSE i \in S : \A j \in S : i <= j
NextMethod(path) ==
    IF MethodPos(path) = {} THEN <<>>
    ELSE SubSeq(path, MinOf(MethodPos(path)), Len(path))

RepeatPos(path) == {i \in 1..Len(path) : Kind(path[i]) = "RepeatRecurse"}
HasRootRepeat(path) == RepeatPos(path) # {}
\* split_by_repeat_recurse: <<pre, post>> around the first root-level symbol
SplitByRepeatRecurse(path) ==
    <<SubSeq(path, 1, MinOf(RepeatPos(path)) - 1),
      SubSeq(path, MinOf(RepeatPos(path)) + 1, Len(path))>>

\* a destructure part that carries a repeat-recurse symbol in its idiom
PartHasPlan(p) ==
    /\ Kind(p) = "Destructure"
    /\ \E j \in 1..Len(p[2]) :
          /\ p[2][j][1] = "Aliased"
          /\ RepeatPos(p[2][j][3]) # {}
PlanPos(path) == {i \in 1..Len(path) : PartHasPlan(path[i])}
HasRecursionPlan(path) == PlanPos(path) # {}
\* find_recursion_plan: <<pre, plan, post>> around the first part with a plan
FindRecursionPlan(path) ==
    <<SubSeq(path, 1, MinOf(PlanPos(path)) - 1),
      path[MinOf(PlanPos(path))],
      SubSeq(path, MinOf(PlanPos(path)) + 1, Len(path))>>

(***************************************************************************)
(* The collaborators, over a fixed datastore: the record fetcher, the       *)
(* method dispatcher, the evaluators of expressions, futures and refs.      *)
(***************************************************************************)
Ta == Thing("p", IdStr("a"))
Tb == Thing("p", IdStr("b"))
Tc == Thing("p", IdStr("c"))
\* a record id with no record, one on a table whose select fails
Tz == Thing("p", IdStr("z"))
Tbad == Thing("bad", IdStr("x"))
\* record ids with an object and an array as id
TObj == Thing("p", IdObject(<< <<"a", Number(1)>> >>))
TArr == Thing("p", IdArray(<<Number(1), Number(0)>>))

Stored == {Ta, Tb, Tc, TObj, TArr}
RecordOf(t) ==
    CASE t = Ta -> Object(<< <<"a", Number(1)>>, <<"id", Ta>> >>)
      [] t = Tb -> Object(<< <<"a", Number(0)>>, <<"id", Tb>> >>)
      [] t = Tc -> Object(<< <<"a", Array(<<Number(1)>>)>>, <<"id", Tc>> >>)
      [] t = TObj -> Object(<< <<"a", Strand("rec")>>, <<"id", TObj>> >>)
      [] t = TArr -> Object(<< <<"a", Strand("arr")>>, <<"id", TArr>> >>)

\* the targets of the edges an edge set holds from a record
Targets(from, what) ==
    IF what # "likes" THEN <<>>
    ELSE CASE from = Ta -> <<Tb, Tc>>
           [] from = Tb -> <<Ta>>
           [] from = Tc -> <<Ta, Tb>>
           [] OTHER -> <<>>

RECURSIVE RecordsOf(_)
\* the rows of SELECT * over record ids: the records that exist, in order
RecordsOf(ts) ==
    IF ts = <<>> THEN <<>>
    ELSE (IF Head(ts) \in Stored THEN <<RecordOf(Head(ts))>> ELSE <<>>)
         \o RecordsOf(Tail(ts))

\* SELECT * FROM thing
SelectRecord(t) ==
    IF t[2] = "bad" THEN Err("SelectError") ELSE Ok(Array(RecordsOf(<<t>>)))

\* SELECT expr FROM from->what, expr being VALUE id or *
SelectGraph(from, what, expr) ==
    IF what = "bad" \/ from[2] = "bad" THEN Err("SelectError")
    ELSE IF expr = "id" THEN Ok(Array(Targets(from, what)))
    ELSE Ok(Array(RecordsOf(Targets(from, what))))

\* SELECT * FROM edges
SelectEdges(e) == SelectGraph(e[2], e[3], "all")

\* fnc::idiom: the method dispatcher
Idiom(receiver, name, args) ==
    CASE name = "is_none" -> Ok(Bool(receiver = None))
      [] name = "len" /\ Variant(receiver) = "Array" ->
            Ok(Number(Len(receiver[2])))
      [] name = "boom" -> Err("MethodError")
      [] OTHER -> Err("InvalidFunction")

\* Function::Anonymous(v, args, true).compute: the field called as a closure
AnonymousCompute(v, args) ==
    IF Variant(v) = "Closure" THEN ExprCompute(v[2]) ELSE Err("InvalidFunction")

RECURSIVE ComputeArgs(_)
\* try_join_all over the computed arguments: the values, or the first failure
ComputeArgs(args) ==
    IF args = <<>> THEN Ok(<<>>)
    ELSE LET h == ExprCompute(Head(args))
             t == ComputeArgs(Tail(args))
         IN  IF ~IsOk(h) THEN h
             ELSE IF ~IsOk(t) THEN t
             ELSE Ok(<<h[2]>> \o t[2])

\* w.compute(stk, ctx, opt, Some(&cur)): an expression over the current document
ComputeWith(w, cur) ==
    CASE w[1] = "Cur" -> Ok(cur)
      [] w[1] = "CurA" ->
            Ok(IF Variant(cur) = "Object" /\ HasKey(cur[2], "a")
               THEN ObjGet(cur[2], "a") ELSE None)
      [] OTHER -> ExprCompute(w)

\* Geometry: as_type, as_coordinates, is_geometry, is_collection, as_object
AsType(g) == Strand(g[2])
AsCoordinates(g) ==
    IF g[2] = "Collection" THEN Array(<<Geometry("Point")>>)
    ELSE Array(<<Number(1), Number(0)>>)
IsGeometry(g) == g[2] # "Collection"
IsCollection(g) == g[2] = "Collection"
AsObject(g) ==
    IF IsCollection(g)
    THEN << <<"geometries", AsCoordinates(g)>>, <<"type", AsType(g)>> >>
    ELSE << <<"coordinates", AsCoordinates(g)>>, <<"type", AsType(g)>> >>

\* Recurse::try_into: the <<min, max>> of the bounds, or an error
BoundsOk(b) == b[1] <= b[2]

(***************************************************************************)
(* What one dispatch of get comes to: a result (Done), a reentry of get on  *)
(* another value and path whose result is returned, flattened first with    *)
(* post "flatten" (Reenter), or the concurrent descent into the elements of *)
(* an array (MapOver), joined as the result ("collect") or reentered with   *)
(* the rest of the path ("mapped", "flatMapped").  calls lists the          *)
(* collaborators the dispatch called.                                       *)
(***************************************************************************)
Done(r, calls) == [k |-> "Done", r |-> r, calls |-> calls]
Reenter(v, path, doc, post, calls) ==
    [k |-> "Reenter", v |-> v, path |-> path, doc |-> doc, post |-> post,
     calls |-> calls]
MapOver(elems, sub, doc, join, rest, calls) ==
    [k |-> "Map", elems |-> elems, sub |-> sub, doc |-> doc, join |-> join,
     rest |-> rest, calls |-> calls]

IsErr(r, e) == r[1] = "Err" /\ r[2] = e
ArgCalls(args) == [i \in 1..Len(args) |-> "expr"]

\* a method arm that answers None when the dispatcher fails
MethodArmRecovers(receiver, name, args, path, doc) ==
    LET a == ComputeArgs(args)
        r == Idiom(receiver, name, a[2])
    IN  IF ~IsOk(a) THEN Done(a, ArgCalls(args))
        ELSE Reenter(IF IsOk(r) THEN r[2] ELSE None, PathNext(path), doc, "none",
                     ArgCalls(args) \o <<"idiom">>)

\* the Method arm of the geometry, array, thing and scalar cases
MethodArm(receiver, name, args, path, doc) ==
    LET a == ComputeArgs(args)
        r == Idiom(receiver, name, a[2])
    IN  IF ~IsOk(a) THEN Done(a, ArgCalls(args))
        ELSE IF ~IsOk(r) THEN Done(r, ArgCalls(args) \o <<"idiom">>)
        ELSE Reenter(r[2], PathNext(path), doc, "none",
                     ArgCalls(args) \o <<"idiom">>)

\* a method arm of the object case that calls the field of the name of the
\* method, when there is one, before the dispatcher
ObjectMethodArmFieldFirst(f, name, args, path, doc) ==
    LET a == ComputeArgs(args)
        res == Idiom(Object(f), name, a[2])
        fnc == CatchReturn(AnonymousCompute(ObjGet(f, name), a[2]))
        c1 == ArgCalls(args) \o <<"idiom">>
        c2 == ArgCalls(args) \o <<"anonymous">>
    IN  IF ~IsOk(a) THEN Done(a, ArgCalls(args))
        ELSE IF HasKey(f, name)
        THEN IF IsOk(fnc) THEN Reenter(fnc[2], PathNext(path), doc, "none", c2)
             ELSE IF IsErr(fnc, "InvalidFunction")
             THEN Reenter(None, PathNext(path), doc, "none", c2)
             ELSE Done(fnc, c2)
        ELSE IF IsOk(res) THEN Reenter(res[2], PathNext(path), doc, "none", c1)
        ELSE Done(res, c1)

\* the Method arm of the object case: the field called as a function when
\* the dispatcher knows no such method
ObjectMethodArm(f, name, args, path, doc) ==
    LET a == ComputeArgs(args)
        res == Idiom(Object(f), name, a[2])
        fnc == CatchReturn(AnonymousCompute(ObjGet(f, name), a[2]))
        c1 == ArgCalls(args) \o <<"idiom">>
        c2 == c1 \o <<"anonymous">>
    IN  IF ~IsOk(a) THEN Done(a, ArgCalls(args))
        ELSE IF IsOk(res) THEN Reenter(res[2], PathNext(path), doc, "none", c1)
        ELSE IF IsErr(res, "InvalidFunction") /\ HasKey(f, name)
        THEN IF IsOk(fnc) THEN Reenter(fnc[2], PathNext(path), doc, "none", c2)
             ELSE IF IsErr(fnc, "InvalidFunction")
             THEN Reenter(None, PathNext(path), doc, "none", c2)
             ELSE Done(fnc, c2)
        ELSE Done(res, c1)

RECURSIVE Get(_, _, _)

(***************************************************************************)
(* The recursion engine (idiom_recursion::compute_idiom_recursion): the     *)
(* path is applied again and again from the current value, up to max times; *)
(* a step that yields NONE or an empty array ends it, as a failure before   *)
(* min steps; an instruction collects the steps, otherwise the last is kept.*)
(***************************************************************************)
IsFinal(v) == Variant(v) = "None" \/ (Variant(v) = "Array" /\ v[2] = <<>>)

RECURSIVE Iterate(_, _, _, _, _)
\* the engine after the step i + 1 came to s
Iterated(i, acc, rec, doc, s) ==
    IF ~IsOk(s) THEN s
    ELSE IF IsFinal(s[2])
    THEN IF i < rec.min THEN Err("RecursionMinimumNotReached") ELSE Ok(acc)
    ELSE Iterate(i + 1, s[2],
                 IF rec.instruction = "collect"
                 THEN Array((IF i = 0 THEN <<>> ELSE acc[2]) \o <<s[2]>>)
                 ELSE s[2],
                 rec, doc)

Iterate(i, current, acc, rec, doc) ==
    IF i = rec.max THEN Ok(acc)
    ELSE Iterated(i, acc, rec, doc, Get(current, rec.path, doc))

\* rec: the Recursion context get builds
ComputeIdiomRecursion(rec, doc) ==
    Iterate(rec.iterated, rec.current, rec.current, rec, doc)

(***************************************************************************)
(* Value::get, arm by arm.                                                  *)
(***************************************************************************)
\* a partition that lets an instruction go on over a path with a plan
RecursePartitionIgnoresConflict(path) ==
    LET inner == path[1][3]
        rep == IF inner[1] = "Some" THEN inner[2] ELSE PathNext(path)
        after == IF inner[1] = "Some" THEN PathNext(path) ELSE <<>>
        split == SplitByRepeatRecurse(rep)
        found == FindRecursionPlan(rep)
    IN  IF HasRootRepeat(rep)
        THEN [conflict |-> FALSE, path |-> split[1], plan |-> <<"None">>,
              after |-> split[2] \o after]
        ELSE IF path[1][4] # NoInstruction
        THEN [conflict |-> FALSE, path |-> rep, plan |-> <<"None">>,
              after |-> after]
        ELSE IF HasRecursionPlan(rep)
             THEN [conflict |-> FALSE, path |-> found[1],
                   plan |-> <<"Some", found[2]>>, after |-> found[3] \o after]
             ELSE [conflict |-> FALSE, path |-> rep, plan |-> <<"None">>,
                   after |-> after]

\* Part::Recurse, lines 45-80: the path to repeat, the plan, the path after
RecursePartition(path) ==
    LET inner == path[1][3]
        instruction == path[1][4]
        rep == IF inner[1] = "Some" THEN inner[2] ELSE PathNext(path)
        after == IF inner[1] = "Some" THEN PathNext(path) ELSE <<>>
        split == SplitByRepeatRecurse(rep)
        found == FindRecursionPlan(rep)
    IN  IF HasRootRepeat(rep)
        THEN [conflict |-> FALSE, path |-> split[1], plan |-> <<"None">>,
              after |-> split[2] \o after]
        ELSE IF instruction # NoInstruction
        THEN IF HasRecursionPlan(rep)
             THEN [conflict |-> TRUE, path |-> rep, plan |-> <<"None">>,
                   after |-> after]
             ELSE [conflict |-> FALSE, path |-> rep, plan |-> <<"None">>,
                   after |-> after]
        ELSE IF HasRecursionPlan(rep)
             THEN [conflict |-> FALSE, path |-> found[1],
                   plan |-> <<"Some", found[2]>>, after |-> found[3] \o after]
             ELSE [conflict |-> FALSE, path |-> rep, plan |-> <<"None">>,
                   after |-> after]

\* lines 85-93: the recursion context
Recursion(self, path, part) ==
    [min |-> path[1][2][1], max |-> path[1][2][2], iterated |-> 0,
     current |-> self, path |-> part.path, plan |-> part.plan,
     instruction |-> path[1][4]]

\* a recursion whose value is returned with the leftover path unprocessed
AfterRecursionDropsLeftover(v, after, doc) == Done(v, <<"recursion">>)

\* lines 96-103: the leftover path is processed on the value of the recursion
AfterRecursion(v, after, doc) ==
    IF ~IsOk(v) THEN Done(v, <<"recursion">>)
    ELSE IF after # <<>> THEN Reenter(v[2], after, doc, "none", <<"recursion">>)
    ELSE Done(v, <<"recursion">>)

\* the arm once the path is partitioned
RecurseWith(self, path, doc, part) ==
    IF part.conflict THEN Done(Err("RecursionInstructionPlanConflict"), <<>>)
    ELSE IF ~BoundsOk(path[1][2]) THEN Done(Err("InvalidBound"), <<>>)
    ELSE AfterRecursion(ComputeIdiomRecursion(Recursion(self, path, part), doc),
                        part.after, doc)

\* Part::Recurse, lines 43-104
RecurseArm(self, path, doc) == RecurseWith(self, path, doc, RecursePartition(path))

\* a repeat symbol that is stepped over
RepeatRecurseArmSkips(self, path, doc) ==
    Reenter(self, PathNext(path), doc, "none", <<>>)

\* Part::RepeatRecurse, lines 109-111
RepeatRecurseArm(self, path, doc) ==
    Done(Err("UnsupportedRepeatRecurse"), <<>>)

\* Part::Doc, lines 112-123
DocArm(self, path, doc) ==
    Reenter(IF doc[1] = "Doc" THEN doc[2] ELSE None, PathNext(path), doc,
            "none", <<>>)

\* references whose value is entered with a path that has grown by a step
RefsArmGrowsPath(self, path, doc) ==
    LET v == ExprCompute(self[2])
    IN  IF ~IsOk(v) THEN Done(v, <<"refs">>)
        ELSE Reenter(v[2], <<Optional>> \o path, doc, "none", <<"refs">>)

\* Value::Refs, lines 127-130
RefsArm(self, path, doc) ==
    LET v == ExprCompute(self[2])
    IN  IF ~IsOk(v) THEN Done(v, <<"refs">>)
        ELSE Reenter(v[2], path, doc, "none", <<"refs">>)

\* a geometry whose object form is entered with the rest of the path
GeometryDestructureTakesTail(self, path, doc) ==
    Reenter(Object(AsObject(self)), PathNext(path), doc, "none", <<>>)

\* lines 148-151: the object form of the geometry, with the original path
GeometryDestructure(self, path, doc) ==
    Reenter(Object(AsObject(self)), path, doc, "none", <<>>)

\* Value::Geometry, lines 132-171
GeometryArm(self, path, doc) ==
    LET p == path[1]
    IN  CASE Kind(p) = "Field" /\ p[2] = "type" ->
                Reenter(AsType(self), PathNext(path), doc, "none", <<>>)
          [] Kind(p) = "Field" /\ p[2] = "coordinates" /\ IsGeometry(self) ->
                Reenter(AsCoordinates(self), PathNext(path), doc, "none", <<>>)
          [] Kind(p) = "Field" /\ p[2] = "geometries" /\ IsCollection(self) ->
                Reenter(AsCoordinates(self), PathNext(path), doc, "none", <<>>)
          [] Kind(p) = "Destructure" -> GeometryDestructure(self, path, doc)
          [] Kind(p) = "Method" -> MethodArm(self, p[2], p[3], path, doc)
          [] Kind(p) = "Optional" ->
                Reenter(self, PathNext(path), doc, "none", <<>>)
          [] OTHER -> Done(Ok(None), <<>>)

\* a future whose computation consumes the head of the path
FutureArmShortensPath(self, path, doc) ==
    LET val == ExprCompute(self[2])
    IN  IF ~IsOk(val) THEN Done(val, <<"future">>)
        ELSE Reenter(val[2], PathNext(path), doc, "none", <<"future">>)

\* Value::Future, lines 173-188
FutureArm(self, path, doc) ==
    LET val == ExprCompute(self[2])
    IN  IF ~IsOk(val) THEN Done(val, <<"future">>)
        ELSE Reenter(val[2], path, doc, "none", <<"future">>)

\* the order of the keys of a BTreeMap<String, Value>, on the keys in use
KeyOrder == <<"0", "1", "a", "b", "coordinates", "f", "geometries", "id", "type">>
\* the idiom of a destructure part
DestructureIdiom(d) == IF d[1] = "Field" THEN <<Field(d[2])>> ELSE d[3]
\* idiom.compute(stk, ctx, opt, Some(&cur_doc)), cur_doc being CursorDoc::from(self)
IdiomCompute(idiom, self) == Get(self, idiom, CursorDoc(None))
\* lines 255-264: the object of the computed fields, or the first failure
BuildObject(parts, vals) ==
    LET bad == {i \in 1..Len(parts) : ~IsOk(vals[i])}
        at(key) == {i \in 1..Len(parts) : parts[i][2] = key}
        last(key) == CHOOSE i \in at(key) : \A j \in at(key) : j <= i
        keys == SelectSeq(KeyOrder, LAMBDA key : at(key) # {})
    IN  IF bad # {} THEN vals[MinOf(bad)]
        ELSE Ok(Object([n \in 1..Len(keys) |-> <<keys[n], vals[last(keys[n])][2]>>]))

DestructureObject(self, parts) ==
    BuildObject(parts,
                [i \in 1..Len(parts) |-> IdiomCompute(DestructureIdiom(parts[i]), self)])

\* lines 253-266: the Destructure arm of the object case, obj being the object built
DestructureArm(obj, parts, next, doc) ==
    IF ~IsOk(obj) THEN Done(obj, <<"idiom_compute">>)
    ELSE Reenter(obj[2], next, doc, "none",
                 [i \in 1..Len(parts) |-> "idiom_compute"])

\* a missing key that answers None without descending the tail
ObjectFieldStopsOnMissing(v, key, next, doc) ==
    IF HasKey(v, key) THEN Reenter(ObjGet(v, key), next, doc, "none", <<>>)
    ELSE Done(Ok(None), <<>>)

\* lines 221-232: the value under the key, or None, with the rest of the path
ObjectField(v, key, next, doc) ==
    IF HasKey(v, key) THEN Reenter(ObjGet(v, key), next, doc, "none", <<>>)
    ELSE Reenter(None, next, doc, "none", <<>>)

\* a graph step that answers None at once on an object without a record id
ObjectGraphStopsWithoutRid(v, path, doc) ==
    IF HasRid(v) THEN Reenter(Rid(v), path, doc, "none", <<>>)
    ELSE Done(Ok(None), <<>>)

\* lines 212-220: the record id of the object with the same path, or None
\* with the rest of the path
ObjectGraph(v, path, doc) ==
    IF HasRid(v) THEN Reenter(Rid(v), path, doc, "none", <<>>)
    ELSE Reenter(None, PathNext(path), doc, "none", <<>>)

\* Value::Object, lines 190-320
ObjectArm(self, path, doc) ==
    LET v == self[2]
        p == path[1]
        next == PathNext(path)
        field(key) == ObjectField(v, key, next, doc)
        x == CatchReturn(ExprCompute(p[2]))
    IN  CASE Kind(p) = "Field" /\ p[2] = "id" /\ Len(path) > 1 ->
                IF ~HasKey(v, "id") THEN Reenter(None, next, doc, "none", <<>>)
                ELSE IF Variant(ObjGet(v, "id")) = "Thing"
                        /\ ObjGet(v, "id")[3][1] = "IdObject"
                THEN Reenter(Object(ObjGet(v, "id")[3][2]), next, doc, "none", <<>>)
                ELSE IF Variant(ObjGet(v, "id")) = "Thing"
                        /\ ObjGet(v, "id")[3][1] = "IdArray"
                THEN Reenter(Array(ObjGet(v, "id")[3][2]), next, doc, "none", <<>>)
                ELSE Reenter(ObjGet(v, "id"), next, doc, "none", <<>>)
          [] Kind(p) = "Graph" -> ObjectGraph(v, path, doc)
          [] Kind(p) = "Field" /\ ~(p[2] = "id" /\ Len(path) > 1) -> field(p[2])
          [] Kind(p) = "Index" -> field(IndexKey(p[2]))
          [] Kind(p) = "Value" ->
                IF ~IsOk(x) THEN Done(x, <<"expr">>)
                ELSE IF Variant(x[2]) = "Strand"
                THEN IF HasKey(v, x[2][2])
                     THEN Reenter(ObjGet(v, x[2][2]), next, doc, "none", <<"expr">>)
                     ELSE Done(Ok(None), <<"expr">>)
                ELSE IF Variant(x[2]) = "Thing"
                THEN IF HasKey(v, ToRaw(x[2]))
                     THEN Reenter(ObjGet(v, ToRaw(x[2])), next, doc, "none", <<"expr">>)
                     ELSE Done(Ok(None), <<"expr">>)
                ELSE Reenter(None, next, doc, "none", <<"expr">>)
          [] Kind(p) = "All" ->
                Reenter(Array(ObjValues(v)), next, doc, "none", <<>>)
          [] Kind(p) = "Destructure" ->
                DestructureArm(DestructureObject(self, p[2]), p[2], next, doc)
          [] Kind(p) = "Method" -> ObjectMethodArm(v, p[2], p[3], path, doc)
          [] Kind(p) = "Optional" -> Reenter(self, next, doc, "none", <<>>)
          [] OTHER -> Done(Ok(None), <<>>)

RECURSIVE WhereFilterStopsAtFalse(_, _)
\* a filter that stops at the first element the predicate does not hold of
WhereFilterStopsAtFalse(a, w) ==
    IF a = <<>> THEN Ok(<<>>)
    ELSE LET c == CatchReturn(ComputeWith(w, Head(a)))
             t == WhereFilterStopsAtFalse(Tail(a), w)
         IN  IF ~IsOk(c) THEN c
             ELSE IF ~IsTruthy(c[2]) THEN Ok(<<>>)
             ELSE IF ~IsOk(t) THEN t
             ELSE Ok(<<Head(a)>> \o t[2])

RECURSIVE WhereFilterPassesReturn(_, _)
\* a filter that lets the early return of the predicate through
WhereFilterPassesReturn(a, w) ==
    IF a = <<>> THEN Ok(<<>>)
    ELSE LET c == ComputeWith(w, Head(a))
             t == WhereFilterPassesReturn(Tail(a), w)
         IN  IF ~IsOk(c) THEN c
             ELSE IF ~IsOk(t) THEN t
             ELSE Ok((IF IsTruthy(c[2]) THEN <<Head(a)>> ELSE <<>>) \o t[2])

\* lines 352-365: the elements the predicate keeps, or its first failure
RECURSIVE WhereFilter(_, _)
WhereFilter(a, w) ==
    IF a = <<>> THEN Ok(<<>>)
    ELSE LET c == CatchReturn(ComputeWith(w, Head(a)))
             t == WhereFilter(Tail(a), w)
         IN  IF ~IsOk(c) THEN c
             ELSE IF ~IsOk(t) THEN t
             ELSE Ok((IF IsTruthy(c[2]) THEN <<Head(a)>> ELSE <<>>) \o t[2])

\* a prefix of one step whatever follows the head
MappedLenAlwaysOne(path) == 1

\* lines 404-430: the length of the prefix each element descends
MappedLen(path) == IF Len(path) > 1 /\ Kind(path[2]) = "All" THEN 2 ELSE 1
\* mapped results that are never flattened
MappedFlattenNever(path) == FALSE

\* lines 423-427: whether the mapped results are flattened
MappedFlatten(path) ==
    /\ Kind(path[1]) = "Graph"
    /\ Len(path) > 1
    /\ Kind(path[2]) \in {"Graph", "Where"}

\* a map that hands each element the whole path
ArrayAllKeepsPath(v, path, doc) == MapOver(v, path, doc, "collect", <<>>, <<>>)

\* lines 324-333: each element descends the rest of the path, the results
\* are joined
ArrayAll(v, path, doc) == MapOver(v, PathNext(path), doc, "collect", <<>>, <<>>)

\* a position out of the array that answers None without descending the tail
ArrayAtStopsOutOfRange(v, i, next, doc) ==
    IF 0 <= i /\ i < Len(v) THEN Reenter(v[i + 1], next, doc, "none", <<>>)
    ELSE Done(Ok(None), <<>>)

\* lines 334-351: the element at the position i (from 0), or None, with the
\* rest of the path
ArrayAt(v, i, next, doc) ==
    IF 0 <= i /\ i < Len(v) THEN Reenter(v[i + 1], next, doc, "none", <<>>)
    ELSE Reenter(None, next, doc, "none", <<>>)

\* Value::Array, lines 322-431
ArrayArm(self, path, doc) ==
    LET v == self[2]
        p == path[1]
        next == PathNext(path)
        at(i) == ArrayAt(v, i, next, doc)
        kept == WhereFilter(v, p[2])
        x == CatchReturn(ExprCompute(p[2]))
    IN  CASE Kind(p) \in {"All", "Flatten"} -> ArrayAll(v, path, doc)
          [] Kind(p) = "First" -> at(0)
          [] Kind(p) = "Last" -> at(Len(v) - 1)
          [] Kind(p) = "Index" -> at(p[2])
          [] Kind(p) = "Where" ->
                IF ~IsOk(kept) THEN Done(kept, <<"where">>)
                ELSE Reenter(Array(kept[2]), next, doc, "none",
                             [i \in 1..Len(v) |-> "where"])
          [] Kind(p) = "Value" ->
                IF ~IsOk(x) THEN Done(x, <<"expr">>)
                ELSE IF Variant(x[2]) = "Number"
                THEN IF 0 <= x[2][2] /\ x[2][2] < Len(v)
                     THEN Reenter(v[x[2][2] + 1], next, doc, "none", <<"expr">>)
                     ELSE Done(Ok(None), <<"expr">>)
                ELSE IF Variant(x[2]) = "Range"
                THEN Reenter(Slice(v, x[2][2], x[2][3]), next, doc, "none", <<"expr">>)
                ELSE Reenter(None, next, doc, "none", <<"expr">>)
          [] Kind(p) = "Method" -> MethodArm(self, p[2], p[3], path, doc)
          [] Kind(p) = "Optional" -> Reenter(self, next, doc, "none", <<>>)
          [] OTHER ->
                MapOver(v, SubSeq(path, 1, MappedLen(path)), doc,
                        IF MappedFlatten(path) THEN "flatMapped" ELSE "mapped",
                        Skip(path, MappedLen(path)), <<>>)

\* an edge set whose rows are entered with the rest of the path
EdgesArmTakesTail(self, path, doc) ==
    LET v == SelectEdges(self)
    IN  IF ~IsOk(v) THEN Done(v, <<"select">>)
        ELSE Reenter(v[2], PathNext(path), NoDoc, "flatten", <<"select">>)

\* Value::Edges, lines 433-455
EdgesArm(self, path, doc) ==
    LET v == SelectEdges(self)
    IN  IF ~IsOk(v) THEN Done(v, <<"select">>)
        ELSE Reenter(v[2], path, NoDoc, "flatten", <<"select">>)

\* lines 469-473: the projection of a graph step
GraphExpr(g, last_part) ==
    IF g[3] # "none" THEN g[3] ELSE IF last_part THEN "id" ELSE "all"

\* a graph step that never flattens what the rest of the path yields
GraphFlattenNever(path) == FALSE

\* lines 505-514: the result is flattened if the next part is a graph or a
\* where part
GraphFlatten(path) == Kind(path[2]) \in {"Graph", "Where"}

\* a fetched record that the whole path is applied to, an All at its head
\* as well
ThingNextKeepsAll(path) == path

\* lines 548-551: the path the fetched record is entered with, an All at
\* the head skipped
ThingNext(path) == IF Kind(path[1]) = "All" THEN PathNext(path) ELSE path

\* Value::Thing, lines 457-558
ThingArm(self, path, doc) ==
    LET p == path[1]
        last_part == Len(path) = 1
        rows == SelectGraph(self, p[2], GraphExpr(p, last_part))
        rec == SelectRecord(self)
    IN  CASE Kind(p) = "Graph" ->
                IF ~IsOk(rows) THEN Done(rows, <<"select">>)
                ELSE IF last_part THEN Done(rows, <<"select">>)
                ELSE Reenter(rows[2], PathNext(path), NoDoc,
                             IF GraphFlatten(path) THEN "flatten" ELSE "none",
                             <<"select">>)
          [] Kind(p) = "Method" -> MethodArm(self, p[2], p[3], path, doc)
          [] Kind(p) = "Optional" ->
                Reenter(self, PathNext(path), doc, "none", <<>>)
          [] OTHER ->
                IF ~IsOk(rec) THEN Done(rec, <<"select">>)
                ELSE Reenter(FirstRow(rec[2]), ThingNext(path), NoDoc, "none",
                             <<"select">>)

\* an Optional that goes on with the tail on None as on any other value
OtherArmOptionalDescends(self, path, doc) ==
    LET p == path[1]
    IN  CASE Kind(p) = "Optional" ->
                Reenter(self, PathNext(path), doc, "none", <<>>)
          [] Kind(p) = "Flatten" ->
                Reenter(self, PathNext(path), NoDoc, "none", <<>>)
          [] Kind(p) = "Method" -> MethodArm(self, p[2], p[3], path, doc)
          [] OTHER -> Reenter(None, NextMethod(path), doc, "none", <<>>)

\* a scalar that goes on with the step after the head
OtherArmSkipsOneStep(self, path, doc) ==
    LET p == path[1]
    IN  CASE Kind(p) = "Optional" ->
                IF Variant(self) = "None" THEN Done(Ok(None), <<>>)
                ELSE Reenter(self, PathNext(path), doc, "none", <<>>)
          [] Kind(p) = "Flatten" ->
                Reenter(self, PathNext(path), NoDoc, "none", <<>>)
          [] Kind(p) = "Method" -> MethodArm(self, p[2], p[3], path, doc)
          [] OTHER -> Reenter(None, PathNext(path), doc, "none", <<>>)

\* every other variant, lines 559-589
OtherArm(self, path, doc) ==
    LET p == path[1]
    IN  CASE Kind(p) = "Optional" ->
                IF Variant(self) = "None" THEN Done(Ok(None), <<>>)
                ELSE Reenter(self, PathNext(path), doc, "none", <<>>)
          [] Kind(p) = "Flatten" ->
                Reenter(self, PathNext(path), NoDoc, "none", <<>>)
          [] Kind(p) = "Method" -> MethodArm(self, p[2], p[3], path, doc)
          [] OTHER -> Reenter(None, NextMethod(path), doc, "none", <<>>)

\* an empty path that computes the future it is applied to
EmptyArmComputes(self, path, doc) ==
    IF Variant(self) = "Future"
    THEN Done(CatchReturn(ExprCompute(self[2])), <<"future">>)
    ELSE Done(Ok(self), <<>>)

\* lines 591-592: no more parts, the value itself
EmptyArm(self, path, doc) == Done(Ok(self), <<>>)

\* a guard that also rejects a path of the greatest length admitted
DepthGuardOffByOne(path) == Len(path) >= MAX_COMPUTATION_DEPTH

\* lines 37-40: the depth guard
DepthGuard(path) == Len(path) > MAX_COMPUTATION_DEPTH

\* the arm of the match that takes the call (lines 41, 125-126)
ArmOf(self, path) ==
    IF DepthGuard(path) THEN "Guard"
    ELSE IF path = <<>> THEN "Empty"
    ELSE IF Kind(path[1]) \in {"Recurse", "RepeatRecurse", "Doc"} THEN Kind(path[1])
    ELSE IF Variant(self) \in {"Refs", "Geometry", "Future", "Object", "Array",
                               "Edges", "Thing"}
    THEN Variant(self)
    ELSE "Other"

\* one dispatch of Value::get, lines 36-594
Dispatch(self, path, doc) ==
    IF DepthGuard(path) THEN Done(Err("ComputationDepthExceeded"), <<>>)
    ELSE IF path = <<>> THEN EmptyArm(self, path, doc)
    ELSE CASE Kind(path[1]) = "Recurse" -> RecurseArm(self, path, doc)
           [] Kind(path[1]) = "RepeatRecurse" -> RepeatRecurseArm(self, path, doc)
           [] Kind(path[1]) = "Doc" -> DocArm(self, path, doc)
           [] OTHER ->
                CASE Variant(self) = "Refs" -> RefsArm(self, path, doc)
                  [] Variant(self) = "Geometry" -> GeometryArm(self, path, doc)
                  [] Variant(self) = "Future" -> FutureArm(self, path, doc)
                  [] Variant(self) = "Object" -> ObjectArm(self, path, doc)
                  [] Variant(self) = "Array" -> ArrayArm(self, path, doc)
                  [] Variant(self) = "Edges" -> EdgesArm(self, path, doc)
                  [] Variant(self) = "Thing" -> ThingArm(self, path, doc)
                  [] OTHER -> OtherArm(self, path, doc)

(***************************************************************************)
(* The function get computes: the dispatches folded along the reentries.    *)
(***************************************************************************)
\* the continuation of a reentry: the result as it is, or flattened
Post(post, r) ==
    IF post = "flatten" /\ IsOk(r) THEN Ok(FlattenValue(r[2])) ELSE r

\* try_join_all_buffered: the results in the order of the elements, or the
\* failure of the first element that fails
JoinAll(rs) ==
    LET bad == {i \in 1..Len(rs) : ~IsOk(rs[i])}
    IN  IF bad # {} THEN rs[MinOf(bad)]
        ELSE Ok(Array([i \in 1..Len(rs) |-> rs[i][2]]))

\* the value a joined map reenters get with
Mapped(join, arr) == IF join = "flatMapped" THEN FlattenValue(arr) ELSE arr

\* the joined results j of a map: the result, or get reentered on the array
AfterJoin(o, j) ==
    IF ~IsOk(j) THEN j
    ELSE IF o.join = "collect" THEN j
    ELSE Get(Mapped(o.join, j[2]), o.rest, o.doc)

\* what the dispatch o comes to
Continue(o) ==
    CASE o.k = "Done" -> o.r
      [] o.k = "Reenter" -> Post(o.post, Get(o.v, o.path, o.doc))
      [] OTHER ->
            AfterJoin(o, JoinAll([i \in 1..Len(o.elems) |->
                                     Get(o.elems[i], o.sub, o.doc)]))

Get(self, path, doc) == Continue(Dispatch(self, path, doc))

(***************************************************************************)
(* The inputs: the values and the paths get is called with.                 *)
(***************************************************************************)
O1 == Object(<< <<"a", Number(1)>> >>)
O2 == Object(<< <<"a", O1>> >>)
O3 == Object(<< <<"a", Number(0)>>, <<"id", Ta>> >>)
OIdObj == Object(<< <<"id", TObj>> >>)
OIdArr == Object(<< <<"id", TArr>> >>)
OIdNum == Object(<< <<"a", Ta>>, <<"id", Number(1)>> >>)
\* objects with fields that are called as functions: a closure (under the
\* name of a method too, and next to a key that is a raw record id), a
\* field that is no function, closures that fail and that return early
OFn ==
    Object(<< <<"f", Closure(Lit(O1))>>, <<"is_none", Closure(Lit(Number(1)))>>,
              <<"p:a", Number(1)>> >>)
OFnInvalid == Object(<< <<"f", Number(1)>> >>)
OFnFail == Object(<< <<"boom", Closure(Lit(Number(1)))>>, <<"f", Closure(Fail)>> >>)
OFnRet == Object(<< <<"f", Closure(Ret(Number(1)))>> >>)

Scalars == {None, Number(1), Number(0), Strand("a"), Bool(TRUE)}
Objects ==
    {Object(<<>>), O1, O2, O3, OIdObj, OIdArr, OIdNum, OFn, OFnInvalid, OFnFail,
     OFnRet}
Arrays ==
    {Array(<<>>), Array(<<Number(1), Number(0)>>), Array(<<O1, O3>>),
     Array(<<Ta, Tb>>), Array(<<Array(<<Number(1)>>), Array(<<Number(0)>>)>>),
     Array(<<None, O2>>), Array(<<Tbad, Ta>>), Array(<<Ta, Tbad, Number(1)>>),
     Array(<<Future(Lit(O1)), Future(Fail)>>)}
Things == {Ta, Tb, Tz, Tbad, TObj}
Deferred ==
    {Future(Lit(None)), Future(Lit(O1)), Future(Lit(Array(<<O1, O3>>))),
     Future(Lit(Ta)), Future(Fail), Future(Ret(Number(1))),
     Refs(Lit(Array(<<Ta, Tb>>))), Refs(Lit(None)), Refs(Fail),
     Edges(Ta, "likes"), Edges(Tz, "likes"), Edges(Tbad, "likes")}
Values ==
    Scalars \cup Objects \cup Arrays \cup Things \cup Deferred
    \cup {Geometry("Point"), Geometry("Collection")}

\* the recursions: over the outer tail or an inner path, with or without
\* an instruction, a root-level repeat symbol, a nested one
Nested == Destructure(<< <<"Aliased", "b", <<Field("a"), RepeatRecurse>> >> >>)
Recursions ==
    {Recurse(<<1, MaxRecurse>>, NoPath, NoInstruction),
     Recurse(<<1, MaxRecurse>>, SomePath(<<Field("a")>>), NoInstruction),
     Recurse(<<1, 1>>, SomePath(<<Field("a"), RepeatRecurse, First>>), NoInstruction),
     Recurse(<<1, 1>>, SomePath(<<Field("a"), RepeatRecurse, First>>), "collect"),
     Recurse(<<1, 1>>, SomePath(<<Field("a"), RepeatRecurse, First, First>>),
             NoInstruction),
     Recurse(<<1, 1>>, SomePath(<<Nested>>), NoInstruction),
     Recurse(<<1, 1>>, SomePath(<<Nested>>), "collect"),
     Recurse(<<1, 1>>, SomePath(<<Nested, RepeatRecurse>>), "collect"),
     Recurse(<<1, 2>>, SomePath(<<Field("a")>>), "collect"),
     Recurse(<<MaxRecurse, 1>>, SomePath(<<Nested>>), "collect"),
     Recurse(<<MaxRecurse, 1>>, NoPath, "collect")}

Steps ==
    {Field("a"), Field("id"), Field("type"), Index(0), Index(1), All, First,
     Last, Flatten, Optional, Doc, RepeatRecurse,
     Where(<<"Cur">>), Where(<<"CurA">>), Where(Fail), Where(Ret(Bool(TRUE))),
     ValueP(Lit(Strand("a"))), ValueP(Lit(Number(0))), ValueP(Fail),
     ValueP(Ret(Strand("a"))), ValueP(Lit(Ta)), ValueP(Lit(Range(0, 1))),
     Graph("likes", "none"), Graph("bad", "none"),
     Method("is_none", <<>>), Method("len", <<Lit(None)>>), Method("boom", <<>>),
     Method("a", <<Fail>>), Method("f", <<>>), Method("is_none", <<Ret(Number(1))>>),
     Destructure(<< <<"Field", "a">> >>), Destructure(<< <<"Field", "type">> >>),
     Nested}
    \cup Recursions

\* the steps a path of two goes on with
Seconds ==
    {Field("a"), Index(0), All, First, Flatten, Optional, Doc, RepeatRecurse,
     Where(<<"Cur">>), ValueP(Lit(Strand("a"))), Graph("likes", "none"),
     Method("is_none", <<>>), Destructure(<< <<"Field", "a">> >>),
     Recurse(<<1, MaxRecurse>>, NoPath, NoInstruction)}

ShortPaths ==
    {<<>>} \cup {<<p>> : p \in Steps} \cup {<<p, q>> : p \in Steps, q \in Seconds}
\* a step, padded to the length the guard admits and to one step more
LongPaths ==
    {<<p>> \o [i \in 1..n |-> f] :
        p \in Steps, f \in {Field("a"), Optional},
        n \in {MAX_COMPUTATION_DEPTH - 1, MAX_COMPUTATION_DEPTH}}
\* paths of three steps: a method step behind steps that act on None
SkipPaths ==
    {<<Field("a"), RepeatRecurse, Method("is_none", <<>>)>>,
     <<Index(0), Doc, Method("is_none", <<>>)>>}
\* chains of three and of four graph steps
ChainPaths == {[i \in 1..k |-> Graph("likes", "none")] : k \in {3, 4}}
Paths == ShortPaths \cup LongPaths \cup SkipPaths \cup ChainPaths

Docs(path) ==
    IF \E i \in 1..Len(path) : Kind(path[i]) = "Doc"
    THEN {NoDoc, CursorDoc(None), CursorDoc(Ta)}
    ELSE {NoDoc}

Inputs ==
    {x \in Values \X Paths \X {NoDoc, CursorDoc(None), CursorDoc(Ta)} :
        x[3] \in Docs(x[2])}

(***************************************************************************)
(* The state: the call get was entered with, the tasks of the evaluation    *)
(* (the root <<>> and, under a task that maps an array, one child per       *)
(* element), the number of calls made to each collaborator; and, apart from *)
(* the evaluator, the index key that is built, encoded and decoded.         *)
(***************************************************************************)
VARIABLES input, tasks, calls, bi
vars == <<input, tasks, calls, bi>>

Pending == <<"Pending">>
\* the frames of a task: the call of get it is at, the array join it waits
\* for, the flatten that awaits a reentry
Call(v, path, doc) == <<"Call", v, path, doc>>
Join(n, join, rest, doc) == <<"Join", n, join, rest, doc>>

Collaborators ==
    {"expr", "idiom", "anonymous", "recursion", "refs", "future",
     "idiom_compute", "where", "select"}
Count(cs, c) == Cardinality({i \in 1..Len(cs) : cs[i] = c})
Called(cs) == [c \in Collaborators |-> calls[c] + Count(cs, c)]

RECURSIVE Unwind(_, _)
\* the result of a task whose call came to r under the frames that await it
Unwind(frames, r) ==
    IF frames = <<>> THEN r ELSE Unwind(Tail(frames), Post("flatten", r))

Top(t) == Head(tasks[t].stack)
AtCall(t) == tasks[t].stack # <<>> /\ Top(t)[1] = "Call"
AtJoin(t) == tasks[t].stack # <<>> /\ Top(t)[1] = "Join"
Child(t, i) == Append(t, i)
IsPrefix(t, u) == Len(t) < Len(u) /\ SubSeq(u, 1, Len(t)) = t

Init ==
    /\ input \in Inputs
    /\ tasks = [t \in {<<>>} |->
                  [stack |-> <<Call(input[1], input[2], input[3])>>, res |-> Pending]]
    /\ calls = [c \in Collaborators |-> 0]
    /\ bi = [stage |-> "none"]

\* the task t goes on as the dispatch o of its call says
Apply(t, o) ==
    LET below == Tail(tasks[t].stack)
        kids == {Child(t, i) : i \in 1..Len(o.elems)}
    IN  /\ calls' = Called(o.calls)
        /\ CASE o.k = "Done" ->
                  tasks' = [tasks EXCEPT ![t] =
                               [stack |-> <<>>, res |-> Unwind(below, o.r)]]
             [] o.k = "Reenter" ->
                  tasks' = [tasks EXCEPT ![t].stack =
                               <<Call(o.v, o.path, o.doc)>>
                               \o (IF o.post = "flatten" THEN << <<"Post", "flatten">> >> ELSE <<>>)
                               \o below]
             [] OTHER ->
                  tasks' = [u \in DOMAIN tasks \cup kids |->
                               IF u = t
                               THEN [stack |-> <<Join(Len(o.elems), o.join, o.rest, o.doc)>>
                                                \o below,
                                     res |-> Pending]
                               ELSE IF u \in kids
                               THEN [stack |-> <<Call(o.elems[u[Len(u)]], o.sub, o.doc)>>,
                                     res |-> Pending]
                               ELSE tasks[u]]
        /\ UNCHANGED <<input, bi>>

\* the task t dispatches the call on top of its stack
Step(t) == Apply(t, Dispatch(Top(t)[2], Top(t)[3], Top(t)[4]))

\* the task t is at a call that the arm handles
At(t, arm) == AtCall(t) /\ ArmOf(Top(t)[2], Top(t)[3]) = arm

StepGuard == \E t \in DOMAIN tasks : At(t, "Guard") /\ Step(t)
StepEmpty == \E t \in DOMAIN tasks : At(t, "Empty") /\ Step(t)
StepRecurse == \E t \in DOMAIN tasks : At(t, "Recurse") /\ Step(t)
StepRepeatRecurse == \E t \in DOMAIN tasks : At(t, "RepeatRecurse") /\ Step(t)
StepDoc == \E t \in DOMAIN tasks : At(t, "Doc") /\ Step(t)
StepRefs == \E t \in DOMAIN tasks : At(t, "Refs") /\ Step(t)
StepGeometry == \E t \in DOMAIN tasks : At(t, "Geometry") /\ Step(t)
StepFuture == \E t \in DOMAIN tasks : At(t, "Future") /\ Step(t)
StepObject == \E t \in DOMAIN tasks : At(t, "Object") /\ Step(t)
StepArray == \E t \in DOMAIN tasks : At(t, "Array") /\ Step(t)
StepEdges == \E t \in DOMAIN tasks : At(t, "Edges") /\ Step(t)
StepThing == \E t \in DOMAIN tasks : At(t, "Thing") /\ Step(t)
StepOther == \E t \in DOMAIN tasks : At(t, "Other") /\ Step(t)

\* try_join_all_buffered yields: the results of the children of t are taken
\* in the order of the elements, up to the first that failed
JoinStep ==
    \E t \in DOMAIN tasks :
        /\ AtJoin(t)
        /\ LET f == Top(t)
               rs == [i \in 1..f[2] |-> tasks[Child(t, i)].res]
               bad == {i \in 1..f[2] : rs[i] # Pending /\ ~IsOk(rs[i])}
               ready == IF bad = {} THEN 1..f[2] ELSE 1..MinOf(bad)
               j == JoinAll([i \in ready |-> rs[i]])
               below == Tail(tasks[t].stack)
               rest == {u \in DOMAIN tasks : ~IsPrefix(t, u)}
           IN  /\ \A i \in ready : rs[i] # Pending
               /\ tasks' = [u \in rest |->
                               IF u # t THEN tasks[u]
                               ELSE IF ~IsOk(j) \/ f[3] = "collect"
                               THEN [stack |-> <<>>, res |-> Unwind(below, j)]
                               ELSE [stack |-> <<Call(Mapped(f[3], j[2]), f[4], f[5])>>
                                                \o below,
                                     res |-> Pending]]
        /\ UNCHANGED <<input, calls, bi>>

Next ==
    \/ StepGuard
    \/ StepEmpty
    \/ StepRecurse
    \/ StepRepeatRecurse
    \/ StepDoc
    \/ StepRefs
    \/ StepGeometry
    \/ StepFuture
    \/ StepObject
    \/ StepArray
    \/ StepEdges
    \/ StepThing
    \/ StepOther
    \/ JoinStep

Spec == Init /\ [][Next]_vars

\* the calls without a Recurse whose evaluation is followed to its end: the
\* paths of one step and, behind a field or a graph step, the longer ones
InitLive ==
    /\ input \in {x \in Inputs :
                     /\ \A i \in 1..Len(x[2]) : Kind(x[2][i]) # "Recurse"
                     /\ \/ Len(x[2]) <= 1
                        \/ x[2][1] \in {Field("a"), Graph("likes", "none")}}
    /\ tasks = [t \in {<<>>} |->
                  [stack |-> <<Call(input[1], input[2], input[3])>>, res |-> Pending]]
    /\ calls = [c \in Collaborators |-> 0]
    /\ bi = [stage |-> "none"]

\* the steps of an evaluation without a Recurse
NextLive ==
    \/ StepGuard
    \/ StepEmpty
    \/ StepRepeatRecurse
    \/ StepDoc
    \/ StepRefs
    \/ StepGeometry
    \/ StepFuture
    \/ StepObject
    \/ StepArray
    \/ StepEdges
    \/ StepThing
    \/ StepOther
    \/ JoinStep

\* the evaluator under its executor: a future that can be polled is polled,
\* so a step that is possible is taken in the end
SpecLive == InitLive /\ [][NextLive]_vars /\ WF_vars(NextLive)

\* the evaluation is over: the root task has its result
Finished == tasks[<<>>].res # Pending
result == tasks[<<>>].res

\* the machine computes the function Get
MachineComputesGet == Finished => result = Get(input[1], input[2], input[3])

(***************************************************************************)
(* The key of the doc ids of an index, key::index::bi::Bi: a struct whose   *)
(* fields are serialised in the order of their declaration, a u8 as its     *)
(* byte, a str as its bytes and a NUL, the u64 doc id as 8 bytes, the most  *)
(* significant first.  A str is the sequence of its bytes, a field the pair  *)
(* of its type and its value.                                               *)
(***************************************************************************)
\* a key whose separator before the index is the one of the tables
BiNewRepeatsSeparator(ns, db, tb, ix, id) ==
    <<<<"u8", 47>>, <<"u8", 42>>, <<"str", ns>>, <<"u8", 42>>, <<"str", db>>, <<"u8", 42>>, <<"str", tb>>, <<"u8", 42>>, <<"str", ix>>,
      <<"u8", 33>>, <<"u8", 98>>, <<"u8", 105>>, <<"u64", id>>>>

\* Bi::new: '/', '*', ns, '*', db, '*', tb, '+', ix, '!', 'b', 'i', id
BiNew(ns, db, tb, ix, id) ==
    <<<<"u8", 47>>, <<"u8", 42>>, <<"str", ns>>, <<"u8", 42>>, <<"str", db>>, <<"u8", 42>>, <<"str", tb>>, <<"u8", 43>>, <<"str", ix>>,
      <<"u8", 33>>, <<"u8", 98>>, <<"u8", 105>>, <<"u64", id>>>>

RECURSIVE BigEndian(_, _)
\* the w bytes of n, the most significant first
BigEndian(n, w) ==
    IF w = 0 THEN <<>> ELSE BigEndian(n \div 256, w - 1) \o <<n % 256>>

RECURSIVE FromBigEndian(_)
FromBigEndian(bytes) ==
    IF bytes = <<>> THEN 0
    ELSE FromBigEndian(SubSeq(bytes, 1, Len(bytes) - 1)) * 256 + bytes[Len(bytes)]

RECURSIVE BiEncode(_)
\* KeyEncode::encode: the fields one after the other
BiEncode(key) ==
    LET f == Head(key)
        first == CASE f[1] = "u8" -> <<f[2]>>
                   [] f[1] = "str" -> f[2] \o <<0>>
                   [] OTHER -> BigEndian(f[2], 8)
    IN  IF key = <<>> THEN <<>> ELSE first \o BiEncode(Tail(key))

\* the types of the fields of Bi, in the order of their declaration
BiFields ==
    <<"u8", "u8", "str", "u8", "str", "u8", "str", "u8", "str", "u8", "u8", "u8",
      "u64">>

RECURSIVE DecodeFields(_, _)
\* the fields of the types tys read off the bytes, <<"Err">> when the bytes
\* do not hold them or hold more: a u8 takes a byte, a str the bytes up to
\* the first NUL, the u64 8 bytes
DecodeFields(tys, bytes) ==
    IF tys = <<>> THEN IF bytes = <<>> THEN <<>> ELSE <<"Err">>
    ELSE LET ty == Head(tys)
             nul == {i \in 1..Len(bytes) : bytes[i] = 0}
             n == CASE ty = "u8" -> IF Len(bytes) >= 1 THEN 1 ELSE 0
                    [] ty = "str" -> IF nul = {} THEN 0 ELSE MinOf(nul)
                    [] OTHER -> IF Len(bytes) >= 8 THEN 8 ELSE 0
             field == CASE ty = "u8" -> <<"u8", bytes[1]>>
                        [] ty = "str" -> <<"str", SubSeq(bytes, 1, n - 1)>>
                        [] OTHER -> <<"u64", FromBigEndian(SubSeq(bytes, 1, 8))>>
             rest == DecodeFields(Tail(tys), SubSeq(bytes, n + 1, Len(bytes)))
         IN  IF n = 0 \/ rest = <<"Err">> THEN <<"Err">>
             ELSE <<field>> \o rest

\* KeyDecode::decode
BiDecode(bytes) == DecodeFields(BiFields, bytes)

\* the names and the doc ids keys are built of: those of the test of the
\* key, names that hold the separators of the key, the empty name; doc ids
\* of one byte and of more (below 2^31)
TestName(c) == <<116, 101, 115, 116, c[1], c[2]>>
Namespaces == {TestName(<<110, 115>>), <<>>, <<42>>}
Databases == {TestName(<<100, 98>>), <<47, 42>>, <<43>>}
Tables == {TestName(<<116, 98>>), <<33>>, <<>>}
Indexes == {TestName(<<105, 120>>), <<98, 105>>, <<105>>}
DocIds == {0, 7, 255, 256, 16777217, 2147483647}

InitBi ==
    /\ \E ns \in Namespaces, db \in Databases, tb \in Tables, ix \in Indexes,
          id \in DocIds :
          bi = [stage |-> "new", args |-> <<ns, db, tb, ix, id>>,
                val |-> BiNew(ns, db, tb, ix, id), enc |-> <<>>, dec |-> <<>>]
    /\ input = <<None, <<>>, NoDoc>>
    /\ tasks = [t \in {<<>>} |-> [stack |-> <<>>, res |-> Ok(None)]]
    /\ calls = [c \in Collaborators |-> 0]

\* Bi::encode(&val)
Encode ==
    /\ bi.stage = "new"
    /\ bi' = [bi EXCEPT !.stage = "encoded", !.enc = BiEncode(bi.val)]
    /\ UNCHANGED <<input, tasks, calls>>

\* Bi::decode(&enc)
Decode ==
    /\ bi.stage = "encoded"
    /\ bi' = [bi EXCEPT !.stage = "decoded", !.dec = BiDecode(bi.enc)]
    /\ UNCHANGED <<input, tasks, calls>>

NextBi ==
    \/ Encode
    \/ Decode

SpecBi == InitBi /\ [][NextBi]_vars

(***************************************************************************)
(* The properties.                                                          *)
(***************************************************************************)
\* the task t is the one that takes the step
Moved(t) == t \in DOMAIN tasks /\ t \in DOMAIN tasks' /\ tasks'[t] # tasks[t]
\* the path of the call the task t is at
PathAt(t) == Top(t)[3]
\* the step ends the task t with the depth error
Rejected(t) ==
    /\ tasks'[t].stack = <<>>
    /\ IsErr(tasks'[t].res, "ComputationDepthExceeded")
\* the heads under which a collaborator evaluates paths of its own
RunsPaths(path) == path # <<>> /\ Kind(path[1]) \in {"Recurse", "Destructure"}

\* C1: every entry into get, the first as well as each reentry, with a path
\* longer than MAX_COMPUTATION_DEPTH ends at once with
\* ComputationDepthExceeded, whatever the value and the head of the path,
\* and calls no collaborator; an entry with a path of at most
\* MAX_COMPUTATION_DEPTH steps is not ended by the guard (where no
\* collaborator evaluates paths of its own, it does not end with that error)
DepthGuardAtEveryEntry ==
    [][\A t \in DOMAIN tasks :
          (AtCall(t) /\ Moved(t)) =>
              IF Len(PathAt(t)) > MAX_COMPUTATION_DEPTH
              THEN Rejected(t) /\ calls' = calls
              ELSE ~RunsPaths(PathAt(t)) => ~Rejected(t)]_vars

\* a reentry after a recursion, with a path longer than the one get was
\* entered with, was rejected
DepthGuardWitness ==
    /\ Finished
    /\ Len(input[2]) \in 1..MAX_COMPUTATION_DEPTH
    /\ Kind(input[2][1]) = "Recurse"
    /\ calls["recursion"] = 1
    /\ IsErr(result, "ComputationDepthExceeded")

\* the value of the call the task t is at
ValueAt(t) == Top(t)[2]
\* the step ends the call of the task t with the result r
Returned(t, r) ==
    /\ tasks'[t].stack = <<>>
    /\ tasks'[t].res = Unwind(Tail(tasks[t].stack), r)

\* C2: every entry into get with the empty path returns the value it was
\* entered with, whatever its variant: a future or a reference is not
\* computed, no record is fetched, no collaborator is called
EmptyPathIsIdentity ==
    [][\A t \in DOMAIN tasks :
          (AtCall(t) /\ Moved(t) /\ PathAt(t) = <<>>) =>
              Returned(t, Ok(ValueAt(t))) /\ calls' = calls]_vars

\* get with the empty path came to an end on a deferred value or a record id
EmptyPathWitness ==
    /\ Finished
    /\ input[2] = <<>>
    /\ Variant(input[1]) \in {"Future", "Refs", "Thing", "Edges"}
    /\ result = Ok(input[1])
    /\ \A c \in Collaborators : calls[c] = 0

\* get was entered with the part of the kind k at the head of the path
HeadIs(k) == input[2] # <<>> /\ Kind(input[2][1]) = k
\* the path get was entered with passes the depth guard
WithinDepth == Len(input[2]) <= MAX_COMPUTATION_DEPTH
\* the variants that are computed or fetched before the path is applied
DeferredVariants == {"Future", "Refs", "Edges"}
\* what the claim C3 says get comes to under an Optional
OptionalOf(v, rest, doc) == IF v = None THEN Ok(None) ELSE Get(v, rest, doc)
\* a deferred value under a non-empty path: get of the computed value (of
\* the fetched rows, flattened) under the same path
DeferredOf(v, path, doc) ==
    LET c == IF Variant(v) = "Edges" THEN SelectEdges(v) ELSE ExprCompute(v[2])
    IN  IF ~IsOk(c) THEN c
        ELSE IF Variant(v) = "Edges"
        THEN Post("flatten", Get(c[2], path, NoDoc))
        ELSE Get(c[2], path, doc)

\* C3 as stated: for every value v of every variant, the deferred ones
\* included, and every tail, get(v, [Optional, ...rest]) is None when v is
\* None and get(v, rest) otherwise
OptionalSkipsOnEveryVariant ==
    (Finished /\ HeadIs("Optional")) =>
        result = OptionalOf(input[1], Tail(input[2]), input[3])

\* C3, amended: for every value v that is not a Future, Refs or Edges, and
\* every path [Optional, ...rest] of at most MAX_COMPUTATION_DEPTH steps,
\* get(v, [Optional, ...rest]) is None when v is None and get(v, rest)
\* otherwise; a Future or Refs is computed first and an Edges fetched
\* first, and the Optional is applied to what that yields
OptionalSkipsUnlessNone ==
    (Finished /\ HeadIs("Optional") /\ WithinDepth) =>
        result = IF Variant(input[1]) \in DeferredVariants
                 THEN DeferredOf(input[1], input[2], input[3])
                 ELSE OptionalOf(input[1], Tail(input[2]), input[3])

\* an Optional ended get on None although the tail, applied to None, yields
\* a value
OptionalWitness ==
    /\ Finished
    /\ HeadIs("Optional")
    /\ input[1] = None
    /\ WithinDepth
    /\ result = Ok(None)
    /\ Get(None, Tail(input[2]), input[3]) # Ok(None)

\* the value an object answers the field k with: the value under the key,
\* None when the key is missing
FieldOf(o, k) == IF HasKey(o[2], k) THEN ObjGet(o[2], k) ELSE None
\* the value the record id v is looked into as when more steps follow the
\* field id: the object or the array of a complex id, v itself otherwise
IdOf(v) ==
    IF Variant(v) = "Thing" /\ v[3][1] = "IdObject" THEN Object(v[3][2])
    ELSE IF Variant(v) = "Thing" /\ v[3][1] = "IdArray" THEN Array(v[3][2])
    ELSE v

\* C4 as stated: for every object o, field k (id included) and tail rest,
\* get(o, [Field(k), ...rest]) is get(o[k], rest), and get(None, rest) when
\* the key is missing
FieldDescendsOnEveryName ==
    (Finished /\ HeadIs("Field") /\ Variant(input[1]) = "Object") =>
        result = Get(FieldOf(input[1], input[2][1][2]), Tail(input[2]), input[3])

\* C4, amended: for every object o, field k and path [Field(k), ...rest] of
\* at most MAX_COMPUTATION_DEPTH steps, get(o, [Field(k), ...rest]) is
\* get(o[k], rest), and get(None, rest) when the key is missing, except that
\* for k = "id" and a non-empty rest a record id whose key is an object or
\* an array is replaced by that object or array
FieldDescends ==
    (Finished /\ HeadIs("Field") /\ Variant(input[1]) = "Object" /\ WithinDepth) =>
        LET k == input[2][1][2]
            v == FieldOf(input[1], k)
        IN  result = Get(IF k = "id" /\ Len(input[2]) > 1 THEN IdOf(v) ELSE v,
                         Tail(input[2]), input[3])

\* a missing field was descended as None, and the tail made a value of it
FieldWitness ==
    /\ Finished
    /\ HeadIs("Field")
    /\ Variant(input[1]) = "Object"
    /\ ~HasKey(input[1][2], input[2][1][2])
    /\ Len(input[2]) > 1
    /\ IsOk(result)
    /\ result # Ok(None)

\* get was entered on an array with the part of the kind k at the head
ArrayUnder(k) == HeadIs(k) /\ Variant(input[1]) = "Array"
\* get of each element of the array get was entered with, under the tail
ElementResults ==
    [i \in 1..Len(input[1][2]) |-> Get(input[1][2][i], Tail(input[2]), input[3])]
\* the array of the values of the results rs
ValuesOf(rs) == Ok(Array([i \in 1..Len(rs) |-> rs[i][2]]))
AllOk(rs) == \A i \in 1..Len(rs) : IsOk(rs[i])

\* C5 as stated: for every array and every tail, get(array, [All, ...rest])
\* and get(array, [Flatten, ...rest]) are the array of get(x, rest) of the
\* elements x, of the same length and in their order, whatever the
\* interleaving of the evaluations of the elements
AllMapsInOrderOnEveryTail ==
    (Finished /\ (ArrayUnder("All") \/ ArrayUnder("Flatten")) /\ AllOk(ElementResults))
        => result = ValuesOf(ElementResults)

\* C5, amended: the same for every path [All, ...rest] or [Flatten, ...rest]
\* of at most MAX_COMPUTATION_DEPTH steps; when the evaluation of an element
\* fails, get fails
AllMapsInOrder ==
    (Finished /\ (ArrayUnder("All") \/ ArrayUnder("Flatten")) /\ WithinDepth) =>
        IF AllOk(ElementResults) THEN result = ValuesOf(ElementResults)
        ELSE ~IsOk(result)

\* two elements or more were evaluated under a non-empty tail, to values
\* that differ, and joined
AllMapsWitness ==
    /\ Finished
    /\ ArrayUnder("All")
    /\ Len(input[2]) > 1
    /\ Len(input[1][2]) > 1
    /\ IsOk(result)
    /\ result[2][2][1] # result[2][2][2]
    /\ result[2][2] # input[1][2]

\* the elements of the array a the predicate w is truthy of, in their order
Kept(a, w) ==
    SelectSeq(a, LAMBDA x : IsTruthy(CatchReturn(ComputeWith(w, x))[2]))
\* the predicate w can be evaluated on every element of a
Decides(a, w) == \A i \in 1..Len(a) : IsOk(CatchReturn(ComputeWith(w, a[i])))

\* C6 as stated: for every array a, predicate p and tail rest,
\* get(a, [Where(p), ...rest]) is get(a', rest), a' being the elements of a
\* that p, evaluated with the element as the current document, is truthy
\* of, in their order
WhereKeepsTruthyOnEveryTail ==
    (Finished /\ ArrayUnder("Where") /\ Decides(input[1][2], input[2][1][2])) =>
        result = Get(Array(Kept(input[1][2], input[2][1][2])), Tail(input[2]),
                     input[3])

\* C6, amended: the same for every path [Where(p), ...rest] of at most
\* MAX_COMPUTATION_DEPTH steps, when p can be evaluated on every element
WhereKeepsTruthy ==
    (Finished /\ ArrayUnder("Where") /\ WithinDepth
     /\ Decides(input[1][2], input[2][1][2])) =>
        result = Get(Array(Kept(input[1][2], input[2][1][2])), Tail(input[2]),
                     input[3])

\* a predicate dropped the first element of an array and kept a later one
WhereWitness ==
    /\ Finished
    /\ ArrayUnder("Where")
    /\ Len(input[2]) = 1
    /\ Len(input[1][2]) > 1
    /\ IsOk(result)
    /\ Len(result[2][2]) \in 1..(Len(input[1][2]) - 1)
    /\ result[2][2][1] # input[1][2][1]

\* get was entered on a future that computes to a value, with a path
FutureUnderPath ==
    /\ Variant(input[1]) = "Future"
    /\ input[2] # <<>>
    /\ IsOk(ExprCompute(input[1][2]))
\* get of the value the future computes to, under the whole path
OfComputed == Get(ExprCompute(input[1][2])[2], input[2], input[3])

\* C7 as stated: for a future f and every non-empty path P, get(f, P) is
\* get(c, P), c being the value f computes to; the head of P is applied to c
FutureComputedUnderEveryPath == (Finished /\ FutureUnderPath) => result = OfComputed

\* C7, amended: the same for every non-empty path P whose head is not a
\* Recurse; under a Recurse the future is handed to the recursion as it is
FutureComputedFirst ==
    (Finished /\ FutureUnderPath /\ ~HeadIs("Recurse")) => result = OfComputed

\* a future was computed and the whole path applied to its value, which the
\* tail of the path alone takes elsewhere
FutureWitness ==
    /\ Finished
    /\ FutureUnderPath
    /\ ~HeadIs("Recurse")
    /\ calls["future"] = 1
    /\ IsOk(result)
    /\ result # Get(ExprCompute(input[1][2])[2], Tail(input[2]), input[3])

\* the step ends the call of the task t with the error e and calls no
\* collaborator
Fails(t, e) == Returned(t, Err(e)) /\ calls' = calls
\* the task t takes the step, from a call with a part of the kind k at the
\* head of its path
Enters(t, k) ==
    /\ AtCall(t)
    /\ Moved(t)
    /\ PathAt(t) # <<>>
    /\ Kind(PathAt(t)[1]) = k

\* C8 as stated: every entry into get with RepeatRecurse at the head of the
\* path fails with UnsupportedRepeatRecurse, whatever the value and the
\* tail, and calls no collaborator
RepeatRecurseFailsOnEveryTail ==
    [][\A t \in DOMAIN tasks :
          Enters(t, "RepeatRecurse") => Fails(t, "UnsupportedRepeatRecurse")]_vars

\* C8, amended: the same for every path of at most MAX_COMPUTATION_DEPTH
\* steps; a longer path fails with ComputationDepthExceeded
RepeatRecurseFails ==
    [][\A t \in DOMAIN tasks :
          Enters(t, "RepeatRecurse") =>
              IF Len(PathAt(t)) <= MAX_COMPUTATION_DEPTH
              THEN Fails(t, "UnsupportedRepeatRecurse")
              ELSE Fails(t, "ComputationDepthExceeded")]_vars

\* a reentry came upon a repeat symbol behind the head of the path get was
\* entered with, on a value fetched or computed on the way
RepeatRecurseWitness ==
    /\ Finished
    /\ Len(input[2]) = 2
    /\ Kind(input[2][1]) # "RepeatRecurse"
    /\ Kind(input[2][2]) = "RepeatRecurse"
    /\ \E c \in Collaborators : calls[c] > 0
    /\ IsErr(result, "UnsupportedRepeatRecurse")

\* the path a Recurse at the head of the path repeats (lines 46-49)
RepeatingPath(path) ==
    IF path[1][3][1] = "Some" THEN path[1][3][2] ELSE Tail(path)
\* the Recurse at the head of the path carries an instruction, and its
\* repeating path a part with a recursion plan
InstructionAndPlan(path) ==
    /\ path[1][4] # NoInstruction
    /\ \E i \in 1..Len(RepeatingPath(path)) : PartHasPlan(RepeatingPath(path)[i])

\* C9 as stated: every entry into get with, at the head of the path, a
\* Recurse that carries an instruction and whose repeating path has a
\* recursion plan fails with RecursionInstructionPlanConflict, and the
\* recursion is not run
InstructionPlanConflictAlways ==
    [][\A t \in DOMAIN tasks :
          (Enters(t, "Recurse") /\ InstructionAndPlan(PathAt(t))) =>
              Fails(t, "RecursionInstructionPlanConflict")]_vars

\* C9, amended: the same when the path has at most MAX_COMPUTATION_DEPTH
\* steps and the repeating path has no repeat symbol at its root; with one
\* the path is split there and the recursion is run
InstructionPlanConflict ==
    [][\A t \in DOMAIN tasks :
          (/\ Enters(t, "Recurse")
           /\ InstructionAndPlan(PathAt(t))
           /\ Len(PathAt(t)) <= MAX_COMPUTATION_DEPTH
           /\ \A i \in 1..Len(RepeatingPath(PathAt(t))) :
                  Kind(RepeatingPath(PathAt(t))[i]) # "RepeatRecurse")
              => Fails(t, "RecursionInstructionPlanConflict")]_vars

\* a Recurse with an instruction, a plan and bounds that cannot be
\* converted ended with the conflict
InstructionPlanConflictWitness ==
    /\ Finished
    /\ HeadIs("Recurse")
    /\ InstructionAndPlan(input[2])
    /\ input[2][1][2][1] > input[2][1][2][2]
    /\ calls["recursion"] = 0
    /\ IsErr(result, "RecursionInstructionPlanConflict")

\* get was entered on a record id with a graph step and then a part of the
\* kind k
GraphThen(k) ==
    /\ Variant(input[1]) = "Thing"
    /\ Len(input[2]) = 2
    /\ Kind(input[2][1]) = "Graph"
    /\ Kind(input[2][2]) = k
\* the value v is an array none of whose elements is an array
IsFlat(v) ==
    /\ Variant(v) = "Array"
    /\ \A i \in 1..Len(v[2]) : Variant(v[2][i]) # "Array"

\* C10: on a record id, two graph steps in a row, or a graph step and then a
\* Where, yield a flat array: the fetches returning flat lists of rows, no
\* element of the result is the array of the targets of one source
GraphChainIsFlat ==
    (Finished /\ (GraphThen("Graph") \/ GraphThen("Where")) /\ IsOk(result)) =>
        IsFlat(result[2])

\* two graph steps came to the targets of two sources, in one array
GraphChainWitness ==
    /\ Finished
    /\ GraphThen("Graph")
    /\ calls["select"] = 3
    /\ IsOk(result)
    /\ IsFlat(result[2])
    /\ Len(result[2][2]) > 2

\* the task t takes the step, from a call whose path passes the depth guard
\* and is handled by the case of the value
Dispatches(t) ==
    /\ AtCall(t)
    /\ Moved(t)
    /\ Len(PathAt(t)) \in 1..MAX_COMPUTATION_DEPTH
    /\ Kind(PathAt(t)[1]) \notin {"Recurse", "RepeatRecurse", "Doc"}
\* the first of the results rs that is an error, Ok(None) when none is
FirstErr(rs) ==
    LET bad == {i \in 1..Len(rs) : rs[i][1] = "Err"}
    IN  IF bad = {} THEN Ok(None) ELSE rs[MinOf(bad)]
\* the error the method step p on the object o ends with, Ok(None) when it
\* ends with none: an InvalidFunction of the dispatcher is an error only
\* when no field has the name of the method, an InvalidFunction of the
\* field called as a function is none
MethodErrorOnObject(o, p, args) ==
    LET r == Idiom(o, p[2], args)
        fn == AnonymousCompute(ObjGet(o[2], p[2]), args)
    IN  IF IsOk(r) THEN Ok(None)
        ELSE IF ~IsErr(r, "InvalidFunction") \/ ~HasKey(o[2], p[2]) THEN r
        ELSE IF fn[1] = "Err" /\ ~IsErr(fn, "InvalidFunction") THEN fn
        ELSE Ok(None)
\* the error the collaborators called by get on the value v with the head
\* of the path raise, Ok(None) when they raise none
RaisedAt(v, path) ==
    LET p == path[1]
        args == ComputeArgs(p[3])
    IN  CASE Variant(v) \in {"Refs", "Future"} -> ExprCompute(v[2])
          [] Variant(v) = "Edges" -> SelectEdges(v)
          [] Variant(v) \notin DeferredVariants /\ Kind(p) = "Method" ->
                IF ~IsOk(args) THEN args
                ELSE IF Variant(v) = "Object" THEN MethodErrorOnObject(v, p, args[2])
                ELSE Idiom(v, p[2], args[2])
          [] Variant(v) = "Thing" /\ Kind(p) = "Graph" ->
                SelectGraph(v, p[2], GraphExpr(p, Len(path) = 1))
          [] Variant(v) = "Thing" /\ Kind(p) \notin {"Graph", "Method", "Optional"} ->
                SelectRecord(v)
          [] Variant(v) \in {"Object", "Array"} /\ Kind(p) = "Value" ->
                ExprCompute(p[2])
          [] Variant(v) = "Array" /\ Kind(p) = "Where" ->
                FirstErr([i \in 1..Len(v[2]) |-> ComputeWith(p[2], v[2][i])])
          [] Variant(v) = "Object" /\ Kind(p) = "Destructure" ->
                DestructureObject(v, p[2])
          [] OTHER -> Ok(None)
\* the children of the joining task t that ended without a value
FailedChildren(t) ==
    {i \in 1..Top(t)[2] :
        tasks[Child(t, i)].res # Pending /\ ~IsOk(tasks[Child(t, i)].res)}

AsValue(e) == IF e[1] = "Ret" THEN Lit(e[2]) ELSE e
\* the object o with the early returns of its closures taken as their values
Caught(o) ==
    Object([i \in 1..Len(o[2]) |->
               IF Variant(o[2][i][2]) = "Closure"
               THEN <<o[2][i][1], Closure(AsValue(o[2][i][2][2]))>>
               ELSE o[2][i]])
\* the path get was entered with, the early return of the expression of its
\* head taken as its value
HeadCaught == << <<Kind(input[2][1]), AsValue(input[2][1][2])>> >> \o Tail(input[2])
\* the head of the path is a step of the kind k whose expression returns early
HeadReturns(k) == HeadIs(k) /\ input[2][1][2][1] = "Ret"
\* get was entered on an object with a method step at the head, and a
\* closure of the object returns early
ClosureReturns ==
    /\ HeadIs("Method")
    /\ Variant(input[1]) = "Object"
    /\ Caught(input[1]) # input[1]
\* get was entered with a method step whose arguments return early, on a
\* value the step is applied to
ArgumentReturns ==
    /\ HeadIs("Method")
    /\ WithinDepth
    /\ Variant(input[1]) \notin DeferredVariants
    /\ ComputeArgs(input[2][1][3])[1] = "Return"
\* get was entered on a future that returns early, with a path that has
\* the future computed
FutureReturns ==
    /\ Variant(input[1]) = "Future"
    /\ Len(input[2]) \in 1..MAX_COMPUTATION_DEPTH
    /\ Kind(input[2][1]) \notin {"Recurse", "RepeatRecurse", "Doc"}
    /\ ExprCompute(input[1][2])[1] = "Return"

\* C12 as stated: an early return of a collaborator (of the key expression
\* of a Value step, of the predicate of a Where step, of a field called as
\* a function, of a method argument, of a future) ends get with that early
\* return, never with a value, and the rest of the path is not evaluated
ReturnAlwaysPassed ==
    (/\ Finished
     /\ WithinDepth
     /\ \/ HeadReturns("Where") /\ Variant(input[1]) = "Array" /\ input[1][2] # <<>>
        \/ HeadReturns("Value") /\ Variant(input[1]) \in {"Object", "Array"}
        \/ ClosureReturns /\ input[2][1] = Method("f", <<>>)
        \/ ArgumentReturns
        \/ FutureReturns)
        => result[1] = "Return"

\* C12, amended: the early return of a method argument or of a future ends
\* get with that early return; the early return of the key expression of a
\* Value step, of the predicate of a Where step and of a field called as a
\* function is caught, and get goes on with the returned value as the
\* value of the expression, the rest of the path included
ReturnCaughtOrPassed ==
    Finished =>
        /\ ArgumentReturns => result = ComputeArgs(input[2][1][3])
        /\ FutureReturns => result = ExprCompute(input[1][2])
        /\ (HeadReturns("Where") \/ HeadReturns("Value")) =>
               result = Get(input[1], HeadCaught, input[3])
        /\ ClosureReturns => result = Get(Caught(input[1]), input[2], input[3])

\* a predicate that returns early kept the elements of an array, and the
\* rest of the path was evaluated on them
ReturnCaughtWitness ==
    /\ Finished
    /\ ArrayUnder("Where")
    /\ HeadReturns("Where")
    /\ Len(input[2]) > 1
    /\ Len(input[1][2]) > 1
    /\ calls["where"] > 1
    /\ IsOk(result)
    /\ result # Ok(input[1])

\* get was entered on an array with a First, Last or Index step at the head
ArrayAtPosition == ArrayUnder("First") \/ ArrayUnder("Last") \/ ArrayUnder("Index")
\* the position (from 0) the head of the path asks for
Position ==
    CASE HeadIs("First") -> 0
      [] HeadIs("Last") -> Len(input[1][2]) - 1
      [] OTHER -> input[2][1][2]
InRange == 0 <= Position /\ Position < Len(input[1][2])
\* the element at the position, None when the array has none there
Positioned == IF InRange THEN input[1][2][Position + 1] ELSE None

\* C13 as stated: for every array a and every tail rest,
\* get(a, [Index(i), ...rest]) is get(a[i], rest) with i in range and
\* get(None, rest) with i out of range, as are First and Last on an empty
\* array: no error, the tail is descended on None
PositionDescendsOnEveryTail ==
    (Finished /\ ArrayAtPosition) =>
        result = Get(Positioned, Tail(input[2]), input[3])

\* C13, amended: the same for every path of at most MAX_COMPUTATION_DEPTH
\* steps
PositionDescends ==
    (Finished /\ ArrayAtPosition /\ WithinDepth) =>
        result = Get(Positioned, Tail(input[2]), input[3])

\* a position out of the array was descended as None, and the tail made a
\* value of it
PositionWitness ==
    /\ Finished
    /\ ArrayAtPosition
    /\ ~InRange
    /\ Len(input[2]) > 1
    /\ IsOk(result)
    /\ result # Ok(None)

\* the bytes the claim C14 lays the key of ns, db, tb, ix and id out as; the
\* doc ids being below 2^31, the first four of the eight bytes are 0
Layout(ns, db, tb, ix, id) ==
    <<47, 42>> \o ns \o <<0, 42>> \o db \o <<0, 42>> \o tb \o <<0, 43>> \o ix
    \o <<0, 33, 98, 105>>
    \o <<0, 0, 0, 0, id \div 16777216, (id \div 65536) % 256, (id \div 256) % 256,
         id % 256>>

KeyValue == CatchReturn(ExprCompute(input[2][1][2]))
\* get was entered on an object or an array with a Value step at the head,
\* whose key expression yields a value, and a path the depth guard admits
ValueStep ==
    /\ HeadIs("Value")
    /\ Variant(input[1]) \in {"Object", "Array"}
    /\ WithinDepth
    /\ IsOk(KeyValue)
\* what the claim C15 has the key x select in the value v: the field of an
\* object under a string or the raw form of a record id, the element of an
\* array at a number, its slice at a range, None when there is none and
\* under a key of any other kind
SelectedBy(v, x) ==
    IF Variant(v) = "Object"
    THEN CASE Variant(x) = "Strand" -> FieldOf(v, x[2])
           [] Variant(x) = "Thing" -> FieldOf(v, ToRaw(x))
           [] OTHER -> None
    ELSE CASE Variant(x) = "Number" ->
                IF 0 <= x[2] /\ x[2] < Len(v[2]) THEN v[2][x[2] + 1] ELSE None
           [] Variant(x) = "Range" -> Slice(v[2], x[2], x[3])
           [] OTHER -> None

\* C15: for a Value step with the tail rest (on a path the depth guard
\* admits), get is get(s, rest), s being what the computed key selects: the
\* field or the element, the slice, and None when the key is absent, the
\* position out of range or the key of another kind
ValueKeyDescends ==
    (Finished /\ ValueStep) =>
        result = Get(SelectedBy(input[1], KeyValue[2]), Tail(input[2]), input[3])

\* get was entered on an object with a graph step at the head
GraphOnObject == HeadIs("Graph") /\ Variant(input[1]) = "Object"

\* C16 as stated: on an object with a graph step at the head, get is get of
\* the record id of the object under the same path, and, the object having
\* none, get of None under the same path, the graph step still at its head
GraphOnObjectKeepsPath ==
    (Finished /\ GraphOnObject) =>
        result = Get(IF HasRid(input[1][2]) THEN Rid(input[1][2]) ELSE None,
                     input[2], input[3])

\* C16, amended: on a path of at most MAX_COMPUTATION_DEPTH steps, the
\* object having no record id, get is get of None under the tail of the
\* path, the graph step consumed
GraphOnObjectPromotes ==
    (Finished /\ GraphOnObject /\ WithinDepth) =>
        result = IF HasRid(input[1][2]) THEN Get(Rid(input[1][2]), input[2], input[3])
                 ELSE Get(None, Tail(input[2]), input[3])

\* on an object without a record id the step after the graph step was
\* evaluated on None, to a value that None under the whole path does not
\* yield
GraphOnObjectWitness ==
    /\ Finished
    /\ GraphOnObject
    /\ ~HasRid(input[1][2])
    /\ IsOk(result)
    /\ result # Ok(None)
    /\ result # Get(None, input[2], input[3])

\* the step has the task t reenter get on the value v with the tail of its
\* path
Descends(t, v) ==
    tasks'[t].stack = <<Call(v, Tail(PathAt(t)), Top(t)[4])>> \o Tail(tasks[t].stack)
\* the number of calls the step makes to the collaborator c
CallsMade(c) == calls'[c] - calls[c]
\* the method step of the task t on an object, its arguments computed to
\* args: the dispatcher is called; on a value r get descends the tail on r;
\* the field of the name of the method is called, once, only when the
\* dispatcher fails with InvalidFunction and the object has the field: on a
\* value r get descends the tail on r, on InvalidFunction on None, any
\* other failure ends get; any other failure of the dispatcher ends get
MethodThenField(t, name, args) ==
    LET o == ValueAt(t)
        res == Idiom(o, name, args)
        fnc == CatchReturn(AnonymousCompute(ObjGet(o[2], name), args))
    IN  /\ CallsMade("idiom") = 1
        /\ IF IsOk(res) THEN CallsMade("anonymous") = 0 /\ Descends(t, res[2])
           ELSE IF IsErr(res, "InvalidFunction") /\ HasKey(o[2], name)
           THEN /\ CallsMade("anonymous") = 1
                /\ IF IsOk(fnc) THEN Descends(t, fnc[2])
                   ELSE IF IsErr(fnc, "InvalidFunction") THEN Descends(t, None)
                   ELSE Returned(t, fnc)
           ELSE CallsMade("anonymous") = 0 /\ Returned(t, res)

\* C17: a method step on an object tries the method dispatcher first and
\* calls the field of that name as a function on the computed arguments
\* only if the dispatcher fails with InvalidFunction and the field exists;
\* an InvalidFunction of the field yields None and the tail is descended,
\* any other error propagates, as does the error of the dispatcher when
\* there is no such field or the error is another; a value continues with
\* the tail; a field never shadows a method the dispatcher accepts
MethodBeforeField ==
    [][\A t \in DOMAIN tasks :
          (/\ Dispatches(t)
           /\ Kind(PathAt(t)[1]) = "Method"
           /\ Variant(ValueAt(t)) = "Object"
           /\ IsOk(ComputeArgs(PathAt(t)[1][3])))
              => MethodThenField(t, PathAt(t)[1][2], ComputeArgs(PathAt(t)[1][3])[2])]_vars

\* a field that is no function was called as one, the dispatcher knowing
\* no method of its name, and the tail made a value of the None it yields
MethodBeforeFieldWitness ==
    /\ Finished
    /\ HeadIs("Method")
    /\ Variant(input[1]) = "Object"
    /\ Len(input[2]) > 1
    /\ HasKey(input[1][2], input[2][1][2])
    /\ Variant(ObjGet(input[1][2], input[2][1][2])) # "Closure"
    /\ calls["idiom"] > 0
    /\ calls["anonymous"] = 1
    /\ IsOk(result)
    /\ result # Ok(None)

\* get was entered on a scalar or None, with a head that the scalar case
\* hands to its last arm
ScalarSkips ==
    /\ Variant(input[1]) \in {"None", "Number", "Strand", "Bool"}
    /\ input[2] # <<>>
    /\ Kind(input[2][1]) \notin
           {"Optional", "Flatten", "Method", "Doc", "Recurse", "RepeatRecurse"}

\* C18 as stated: for a scalar or None v and every path whose head is not
\* Optional, Flatten, Method, Doc, Recurse or RepeatRecurse, get(v, path)
\* is get(None, next_method(path)): the steps before the next method step
\* are not evaluated, and the result is None when there is no method step
ScalarSkipsOnEveryPath ==
    (Finished /\ ScalarSkips) => result = Get(None, NextMethod(input[2]), input[3])

\* C18, amended: the same for every path of at most MAX_COMPUTATION_DEPTH
\* steps
ScalarSkipsToMethod ==
    (Finished /\ ScalarSkips /\ WithinDepth) =>
        result = Get(None, NextMethod(input[2]), input[3])

\* a repeat symbol between the head and a method step was skipped, and the
\* method applied to None
ScalarSkipsWitness ==
    /\ Finished
    /\ ScalarSkips
    /\ input[1] # None
    /\ Len(input[2]) = 3
    /\ Kind(input[2][2]) = "RepeatRecurse"
    /\ calls["idiom"] = 1
    /\ result = Ok(Bool(TRUE))

\* get was entered on an array with a head that the array case hands to its
\* last arm, the mapped descent
MappedDescent ==
    /\ Variant(input[1]) = "Array"
    /\ input[2] # <<>>
    /\ Kind(input[2][1]) \notin
           {"All", "Flatten", "First", "Last", "Index", "Where", "Value", "Method",
            "Optional", "Doc", "Recurse", "RepeatRecurse"}
\* the length of the prefix of the path the claim C19 has each element
\* evaluated with
PrefixLen == IF Len(input[2]) > 1 /\ input[2][2] = All THEN 2 ELSE 1
\* get of each element of the array under that prefix
PrefixResults ==
    [i \in 1..Len(input[1][2]) |->
        Get(input[1][2][i], SubSeq(input[2], 1, PrefixLen), input[3])]
\* the array of the values of the results rs, flattened one level when the
\* head of the path is a graph step and the next a graph or a Where step
Collected(rs) ==
    LET arr == Array([i \in 1..Len(rs) |-> rs[i][2]])
    IN  IF /\ Kind(input[2][1]) = "Graph"
           /\ Len(input[2]) > 1
           /\ Kind(input[2][2]) \in {"Graph", "Where"}
        THEN FlattenValue(arr) ELSE arr
\* what the claim C19 has the mapped descent come to
OfCollected ==
    IF AllOk(PrefixResults)
    THEN result = Get(Collected(PrefixResults),
                      SubSeq(input[2], PrefixLen + 1, Len(input[2])), input[3])
    ELSE ~IsOk(result)

\* C19 as stated: in the mapped descent of an array, under every path, each
\* element is evaluated with the prefix of the path of length 2 when the
\* second step is All and 1 otherwise, the results are collected in the
\* order of the elements, flattened one level only under a graph step
\* followed by a graph or a Where step, and the evaluation goes on with the
\* collected array and the path behind the prefix
MappedDescentOnEveryPath == (Finished /\ MappedDescent) => OfCollected

\* C19, amended: the same under every path of at most
\* MAX_COMPUTATION_DEPTH steps
MappedDescentCollects == (Finished /\ MappedDescent /\ WithinDepth) => OfCollected

\* the All behind a field step was applied to the field of each element,
\* not to the array of the fields
MappedDescentWitness ==
    /\ Finished
    /\ MappedDescent
    /\ Len(input[1][2]) > 1
    /\ input[2] = <<Field("a"), All>>
    /\ IsOk(result)
    /\ result # Get(Array([i \in 1..Len(input[1][2]) |->
                              Get(input[1][2][i], <<Field("a")>>, input[3])[2]]),
                    <<All>>, input[3])

\* get was entered on a record id with a head that the record case hands to
\* its last arm, the fetch of the record
RemoteField ==
    /\ Variant(input[1]) = "Thing"
    /\ input[2] # <<>>
    /\ Kind(input[2][1]) \notin
           {"Graph", "Method", "Optional", "Doc", "Recurse", "RepeatRecurse"}
\* what the claim C20 has get come to: the failure of the fetch, or get of
\* the first row (None when there is none) under the path, an All at its
\* head dropped, evaluated as the code does without a current document
OfFetched ==
    LET rows == SelectRecord(input[1])
    IN  IF ~IsOk(rows) THEN result = rows
        ELSE result = Get(FirstRow(rows[2]),
                          IF input[2][1] = All THEN Tail(input[2]) ELSE input[2],
                          NoDoc)

\* C20 as stated: for a record id t and every non-empty path whose head is
\* not Graph, Method, Optional, Doc, Recurse or RepeatRecurse, the record
\* is fetched and get(t, path) is get(r, path), r being the first row or
\* None, and get(r, tail) when the head is All
RemoteFieldOnEveryPath == (Finished /\ RemoteField) => OfFetched

\* C20, amended: the same for every path of at most MAX_COMPUTATION_DEPTH
\* steps
RemoteFieldFetches == (Finished /\ RemoteField /\ WithinDepth) => OfFetched

\* the All on a record id came to the content of the record, fetched once
RemoteFieldWitness ==
    /\ Finished
    /\ RemoteField
    /\ input[2] = <<All>>
    /\ input[1] \in Stored
    /\ calls["select"] = 1
    /\ result = Ok(RecordOf(input[1]))

\* the path that follows a Recurse when it carries an inner path
OuterTail(path) == IF path[1][3][1] = "Some" THEN Tail(path) ELSE <<>>
\* the segment a Recurse at the head of the path repeats and the continuation
\* that follows the recursion, as the claim C21 has them: the repeating path
\* and the outer tail, or the two sides of a repeat symbol at the root of the
\* repeating path, the second before the outer tail
Repeated(path) ==
    IF HasRootRepeat(RepeatingPath(path))
    THEN SplitByRepeatRecurse(RepeatingPath(path))[1]
    ELSE RepeatingPath(path)
Continuation(path) ==
    IF HasRootRepeat(RepeatingPath(path))
    THEN SplitByRepeatRecurse(RepeatingPath(path))[2] \o OuterTail(path)
    ELSE OuterTail(path)
\* the recursion of the segment from the value v, with no plan
Recursed(v, path, doc) ==
    ComputeIdiomRecursion(
        [min |-> path[1][2][1], max |-> path[1][2][2], iterated |-> 0,
         current |-> v, path |-> Repeated(path), plan |-> <<"None">>,
         instruction |-> path[1][4]], doc)
\* the step of the task t is the one of a recursion that returned r: get is
\* reentered on its value with the continuation, or r is the result
RecursionLeadsTo(t, r, after) ==
    /\ CallsMade("recursion") = 1
    /\ IF IsOk(r) /\ after # <<>>
       THEN tasks'[t].stack =
                <<Call(r[2], after, Top(t)[4])>> \o Tail(tasks[t].stack)
       ELSE Returned(t, r)

\* C21: an entry into get with a Recurse at the head of the path (the
\* bounds convertible, the repeating path with a repeat symbol at its root
\* or with no recursion plan) repeats the inner path, or the outer tail when
\* there is none, up to a repeat symbol at its root, with no plan and with
\* or without an instruction; the result is get of the value of the
\* recursion under the continuation (what follows the repeat symbol, then
\* the outer tail behind an inner path), or that value when the
\* continuation is empty
RecursePartitions ==
    [][\A t \in DOMAIN tasks :
          (/\ Enters(t, "Recurse")
           /\ Len(PathAt(t)) <= MAX_COMPUTATION_DEPTH
           /\ BoundsOk(PathAt(t)[1][2])
           /\ \/ HasRootRepeat(RepeatingPath(PathAt(t)))
              \/ ~HasRecursionPlan(RepeatingPath(PathAt(t))))
              => RecursionLeadsTo(t, Recursed(ValueAt(t), PathAt(t), Top(t)[4]),
                                  Continuation(PathAt(t)))]_vars

\* a recursion over the inner path up to its repeat symbol was followed by
\* what is behind the symbol and then by the outer tail
RecursePartitionsWitness ==
    /\ Finished
    /\ HeadIs("Recurse")
    /\ Len(input[2]) = 2
    /\ input[2][1][3][1] = "Some"
    /\ HasRootRepeat(RepeatingPath(input[2]))
    /\ Len(Continuation(input[2])) = 2
    /\ calls["recursion"] = 1
    /\ IsOk(result)
    /\ result # Recursed(input[1], input[2], input[3])
    /\ result = Get(Recursed(input[1], input[2], input[3])[2],
                    Continuation(input[2]), input[3])

\* the paths the step of the task t passes to get: the one of the call it
\* reenters, or the one its children are entered with and the one that
\* awaits their results
Reentered(t) ==
    IF tasks'[t].stack = <<>> THEN {}
    ELSE IF Head(tasks'[t].stack)[1] = "Call" THEN {Head(tasks'[t].stack)[3]}
    ELSE {Head(tasks'[t].stack)[4]}
         \cup {Head(tasks'[Child(t, i)].stack)[3] :
                  i \in 1..Head(tasks'[t].stack)[2]}
\* q is one of the paths a case other than Recurse passes on from path
ShrunkFrom(q, path) ==
    \/ q \in {path, PathNext(path), Skip(path, 2), NextMethod(path)}
    \/ Len(q) <= 2 /\ Len(q) <= Len(path) /\ q = SubSeq(path, 1, Len(q))
\* q, longer than path, is a continuation of the Recurse at the head of
\* path: it ends with the outer tail, behind an inner path
GrownFrom(q, path) ==
    /\ Kind(path[1]) = "Recurse"
    /\ path[1][3][1] = "Some"
    /\ SubSeq(q, Len(q) - Len(path) + 2, Len(q)) = Tail(path)

\* C22: a reentry into get made by a case other than Recurse passes a path
\* that is not longer than the one the case received: the same path, its
\* tail, the path less two steps, its suffix from the next method, or for
\* the elements of an array a prefix of at most two steps; a path longer
\* than the one it came from is the continuation of a Recurse with an inner
\* path; and every entry with a path longer than MAX_COMPUTATION_DEPTH, such
\* a continuation too, is rejected by the depth guard
ReentryPathsShrink ==
    [][\A t \in DOMAIN tasks :
          (AtCall(t) /\ Moved(t)) =>
              /\ Len(PathAt(t)) > MAX_COMPUTATION_DEPTH => Rejected(t)
              /\ \A q \in Reentered(t) :
                    IF Kind(PathAt(t)[1]) # "Recurse"
                    THEN Len(q) <= Len(PathAt(t)) /\ ShrunkFrom(q, PathAt(t))
                    ELSE Len(q) > Len(PathAt(t)) => GrownFrom(q, PathAt(t))]_vars

\* the continuation of a Recurse, longer than the path of the Recurse and
\* than the guard admits, was rejected after the recursion had run
ReentryPathsWitness ==
    /\ Finished
    /\ HeadIs("Recurse")
    /\ WithinDepth
    /\ Len(Continuation(input[2])) > MAX_COMPUTATION_DEPTH
    /\ calls["recursion"] = 1
    /\ IsErr(result, "ComputationDepthExceeded")

\* the object form of a geometry
ObjectForm(g) == Object(AsObject(g))
\* the task t takes the step, from a call on a value of the variant k with a
\* Destructure at the head of a path that passes the depth guard
Destructures(t, k) ==
    /\ Enters(t, "Destructure")
    /\ Variant(ValueAt(t)) = k
    /\ Len(PathAt(t)) <= MAX_COMPUTATION_DEPTH
\* the step of the task t reenters get on the value v with the path q
ReentersWith(t, v, q) ==
    tasks'[t].stack = <<Call(v, q, Top(t)[4])>> \o Tail(tasks[t].stack)
\* the step of the task t applies the Destructure at the head of its path,
\* which computes to obj: each part is computed once and get is reentered on
\* the object with the rest of the path, or the failure of a part ends get
DestructuredTo(t, obj) ==
    IF IsOk(obj)
    THEN /\ ReentersWith(t, obj[2], Tail(PathAt(t)))
         /\ CallsMade("idiom_compute") = Len(PathAt(t)[1][2])
    ELSE Returned(t, obj)

\* C23: get of a geometry under a path with a Destructure at its head is
\* get of the object form of the geometry under the same path; the
\* geometry case reenters get on the object form with the original path and
\* computes nothing, and the object case, entered on the object form,
\* applies the Destructure once and goes on with the rest of the path, so
\* that the Destructure is not entered again
GeometryDestructures ==
    /\ []((Finished /\ HeadIs("Destructure") /\ Variant(input[1]) = "Geometry")
            => result = Get(ObjectForm(input[1]), input[2], input[3]))
    /\ [][\A t \in DOMAIN tasks :
             Destructures(t, "Geometry") =>
                 /\ ReentersWith(t, ObjectForm(ValueAt(t)), PathAt(t))
                 /\ calls' = calls]_vars
    /\ [][\A t \in DOMAIN tasks :
             (/\ Destructures(t, "Object")
              /\ \E g \in {"Point", "Collection"} :
                    ValueAt(t) = ObjectForm(Geometry(g)))
                 => DestructuredTo(t, DestructureObject(ValueAt(t),
                                                        PathAt(t)[1][2]))]_vars

\* the Destructure of the type of a point came to the object of its type,
\* each part computed once
GeometryDestructuresWitness ==
    /\ Finished
    /\ input[1] = Geometry("Point")
    /\ input[2] = <<Destructure(<< <<"Field", "type">> >>)>>
    /\ calls["idiom_compute"] = 1
    /\ result = Ok(Object(<< <<"type", Strand("Point")>> >>))

\* the path get was entered with has no Recurse
NoRecurse == \A i \in 1..Len(input[2]) : Kind(input[2][i]) # "Recurse"
\* the cases that reenter get with the path unchanged, as the claim C24
\* lists them: Refs, Future, Edges, a geometry under a Destructure, an
\* object with a record id under a graph step, the fetch of a record
KeepsPath(v, path) ==
    /\ path # <<>>
    /\ Len(path) <= MAX_COMPUTATION_DEPTH
    /\ Kind(path[1]) \notin {"Recurse", "RepeatRecurse", "Doc"}
    /\ \/ Variant(v) \in {"Refs", "Future", "Edges"}
       \/ Variant(v) = "Geometry" /\ Kind(path[1]) = "Destructure"
       \/ Variant(v) = "Object" /\ Kind(path[1]) = "Graph" /\ HasRid(v[2])
       \/ /\ Variant(v) = "Thing"
          /\ Kind(path[1]) \notin {"Graph", "Method", "Optional", "All"}
\* the task t takes a step that reenters get
Reenters(t) ==
    /\ AtCall(t)
    /\ Moved(t)
    /\ tasks'[t].stack # <<>>
    /\ Head(tasks'[t].stack)[1] = "Call"
\* the value and the path of the call the step of the task t reenters
NextValue(t) == Head(tasks'[t].stack)[2]
NextPath(t) == Head(tasks'[t].stack)[3]
\* the step of the task t shortens the path or descends into the elements
Progresses(t) ==
    \/ tasks'[t].stack = <<>>
    \/ Head(tasks'[t].stack)[1] = "Join"
    \/ Len(NextPath(t)) < Len(PathAt(t))

\* C24 as stated: under a path without Recurse get comes to an end, and a
\* reentry that keeps the path unchanged changes the value to one from which
\* the next reentry shortens the path or descends into a child
TerminatesByNextReentry ==
    /\ NoRecurse ~> Finished
    /\ [][\A t \in DOMAIN tasks :
             (NoRecurse /\ Reenters(t) /\ KeepsPath(ValueAt(t), PathAt(t))) =>
                 ~KeepsPath(NextValue(t), NextPath(t))]_vars

\* C24, amended: under a path without Recurse get comes to an end; the
\* cases listed, and only they, reenter get with the path unchanged; the
\* value a geometry, an object, an edge set or a record leads to is one from
\* which the next reentry shortens the path or descends into a child, and
\* the value of a Future or of Refs, neither a Future nor Refs, is such a
\* value or one of those four, so that at most two reentries in a row keep
\* the path
Terminates ==
    /\ NoRecurse ~> Finished
    /\ [][\A t \in DOMAIN tasks :
             (NoRecurse /\ AtCall(t) /\ Moved(t)
                 /\ Len(PathAt(t)) <= MAX_COMPUTATION_DEPTH) =>
                 IF KeepsPath(ValueAt(t), PathAt(t))
                 THEN \/ tasks'[t].stack = <<>>
                      \/ /\ Reenters(t)
                         /\ NextPath(t) = PathAt(t)
                         /\ Variant(NextValue(t)) \notin {"Future", "Refs"}
                         /\ KeepsPath(NextValue(t), NextPath(t)) =>
                                Variant(ValueAt(t)) \in {"Future", "Refs"}
                 ELSE Progresses(t)]_vars

\* a future came to a record id, the record was fetched under the same
\* path, and the field of the record was the result
TerminatesWitness ==
    /\ Finished
    /\ input[1] = Future(Lit(Ta))
    /\ input[2] = <<Field("a")>>
    /\ calls["future"] = 1
    /\ calls["select"] = 1
    /\ result = Ok(Number(1))

\* get was entered on a record id with a chain of three or more graph steps
GraphChain ==
    /\ Variant(input[1]) = "Thing"
    /\ Len(input[2]) >= 3
    /\ \A i \in 1..Len(input[2]) : Kind(input[2][i]) = "Graph"
RECURSIVE TargetsOfAll(_, _)
\* the targets of the edges from the record ids ts that have a record, one
\* after the other, in their order
TargetsOfAll(ts, what) ==
    IF ts = <<>> THEN <<>>
    ELSE (IF Head(ts) \in Stored THEN Targets(Head(ts), what) ELSE <<>>)
         \o TargetsOfAll(Tail(ts), what)
RECURSIVE Traversed(_, _)
\* the record ids the graph steps of the path lead to from the record ids ts
Traversed(ts, path) ==
    IF path = <<>> THEN ts
    ELSE Traversed(TargetsOfAll(ts, path[1][2]), Tail(path))

\* C25: on a record id, a chain of three or more graph steps (those of
\* three and of four are entered) yields a flat array: the ids
\* the chain leads to, in the order of the sources, none of the elements an
\* array of the targets of one source; the grouping of each level is
\* flattened once, by the array case at the inner levels and by the record
\* case at the last
LongGraphChainIsFlat ==
    (Finished /\ GraphChain /\ IsOk(result)) =>
        /\ IsFlat(result[2])
        /\ result[2] = Array(Traversed(<<input[1]>>, input[2]))

\* a chain of four graph steps came to the ids at its end, in one array,
\* after a fetch for the record id, for each of its targets, and for each
\* source of the two levels behind
LongGraphChainWitness ==
    /\ Finished
    /\ GraphChain
    /\ input[1] = Ta
    /\ Len(input[2]) = 4
    /\ IsOk(result)
    /\ IsFlat(result[2])
    /\ Len(result[2][2]) = 8
    /\ calls["select"] = 1 + 2 + 3 + 5

=============================================================================
